---- MODULE Spec2Model ----
(***************************************************************************)
(* A model of go-proxy-server: the override rule engine with its stateful  *)
(* trigger/reset counters, the request dispatcher (mock, cache hit,        *)
(* buffered forward, streaming forward), the TTL response cache with its   *)
(* persistence worker, and the header/framing handling across the hop.     *)
(*                                                                         *)
(* Byte strings, URLs and patterns are sequences of one-character strings. *)
(***************************************************************************)
EXTENDS Integers, Sequences, FiniteSets, TLC

VARIABLES
    config,        \* config.Overrides after loadConfig (a sequence of rules)
    requestCount,  \* override.requestCount, per rule index
    triggerCount,  \* override.triggerCount, per rule index
    mutex,         \* override.mutex, per rule index: 0 (free) or the holder
    pc,            \* per goroutine: its position in findMatchingOverride / showStats
    idx,           \* per goroutine: the loop variable i
    args,          \* per goroutine: the (method, urlPath) of its call
    ret,           \* per goroutine: the returned rule index (0 = nil)
    stat,          \* per goroutine: the stats rows showStats has collected
    trail,         \* per goroutine: what its call did to each rule so far
    started,       \* number of calls begun since startup
    logSettings,   \* logSettings (EnableStreaming)
    cacheSettings, \* cacheSettings (Enabled, TTL, KeyHeaders, URLPatterns)
    responseCache, \* responseCache: cache key -> *CacheEntry
    cacheHits,     \* cacheHits
    cacheMisses,   \* cacheMisses
    cacheModified, \* cacheModified
    cacheFile,     \* the file at cachePersistFile: whether it exists, and its bytes
    worker,        \* cachePersistenceWorker: its position, and the bytes it is writing
    now,           \* time.Now()
    resp,          \* the last request this process handled: what went upstream
                   \* and what the client got
    served         \* requests handled in all

\* the rule list and its counters
counterVars == <<config, requestCount, triggerCount>>

\* the goroutines of the concurrent rule engine
engineVars == <<mutex, pc, idx, args, ret, stat, trail, started>>

\* the dispatcher, the cache and the client's view
proxyVars == <<logSettings, cacheSettings, responseCache, cacheHits, cacheMisses,
               cacheModified, cacheFile, worker, now, resp, served>>

ruleVars == <<config, requestCount, triggerCount, mutex, pc, idx, args, ret, stat, trail, started>>

vars == <<counterVars, engineVars, proxyVars>>

----------------------------------------------------------------------------
(* Bounds of the model. *)

\* calls of findMatchingOverride begun in one run of the concurrent rule engine
MaxCalls == 3

\* requests handled in one run of the dispatcher
MaxRequests == 2

\* the clock's last tick
MaxTime == 2

\* requests handled in one run of the cyclic scenario: two cycles and one more
MaxCycleRequests == 21

\* requests handled in one run of the server in HTTP-proxy mode
MaxProxyModeRequests == 3

\* requests begun in one run of the server whose cache lookups interleave
MaxLookupRequests == 3

\* responses streamed in one run of the server whose copy loops are stepped
MaxStreams == 2

----------------------------------------------------------------------------
(* Strings. *)

\* strings.ToLower, on the method names and header names the model uses
ToLower(s) ==
    CASE s = "GET" -> "get"
      [] s = "Get" -> "get"
      [] s = "POST" -> "post"
      [] s = "CONNECT" -> "connect"
      [] s = "Connection" -> "connection"
      [] s = "Proxy-Connection" -> "proxy-connection"
      [] s = "Proxy-Authenticate" -> "proxy-authenticate"
      [] s = "Proxy-Authorization" -> "proxy-authorization"
      [] s = "Te" -> "te"
      [] s = "Trailer" -> "trailer"
      [] s = "Upgrade" -> "upgrade"
      [] s = "Transfer-Encoding" -> "transfer-encoding"
      [] s = "Content-Length" -> "content-length"
      [] s = "Content-Type" -> "content-type"
      [] s = "Content-Encoding" -> "content-encoding"
      [] s = "Authorization" -> "authorization"
      [] s = "Cache-Control" -> "cache-control"
      [] s = "X-Cache" -> "x-cache"
      [] s = "X-Cache-Expires" -> "x-cache-expires"
      [] s = "X-Mock" -> "x-mock"
      [] s = "GZIP" -> "gzip"
      [] s = "Text/Event-Stream" -> "text/event-stream"
      [] OTHER -> s

\* strings.EqualFold
EqualFold(a, b) == ToLower(a) = ToLower(b)

\* strings.Contains / bytes.Contains
Contains(s, sub) ==
    \E i \in 0..(Len(s) - Len(sub)) : SubSeq(s, i + 1, i + Len(sub)) = sub

\* strings.HasPrefix
HasPrefix(s, prefix) ==
    Len(s) >= Len(prefix) /\ SubSeq(s, 1, Len(prefix)) = prefix

\* strings.HasSuffix
HasSuffix(s, suffix) ==
    Len(s) >= Len(suffix) /\ SubSeq(s, Len(s) - Len(suffix) + 1, Len(s)) = suffix

----------------------------------------------------------------------------
(* Regular expressions: the subset of Go's regexp syntax the rules use.    *)
(* A pattern is a sequence of atoms, an atom a literal character or the    *)
(* class \d, optionally followed by "+".  "(" (never closed in the         *)
(* patterns of the model) and a "+" with nothing to repeat do not compile. *)

NoRegex == [ok |-> FALSE, prog |-> <<>>]

RECURSIVE CompileFrom(_, _)
CompileFrom(src, i) ==
    IF i > Len(src) THEN [ok |-> TRUE, prog |-> <<>>]
    ELSE IF src[i] \in {"+", "("} THEN NoRegex
    ELSE LET plus == i < Len(src) /\ src[i + 1] = "+"
             rest == CompileFrom(src, IF plus THEN i + 2 ELSE i + 1)
         IN  IF rest.ok
             THEN [ok |-> TRUE, prog |-> <<[cls |-> src[i], plus |-> plus]>> \o rest.prog]
             ELSE NoRegex

\* regexp.Compile: ok is FALSE when Compile returns an error (the handle stays nil)
RegexCompile(src) == CompileFrom(src, 1)

AtomMatches(cls, c) == IF cls = "\\d" THEN c \in {"0", "1", "2", "3", "4", "5", "6", "7", "8", "9"} ELSE cls = c

RECURSIVE RunLen(_, _, _)
RunLen(cls, s, pos) ==
    IF pos < Len(s) /\ AtomMatches(cls, s[pos + 1]) THEN 1 + RunLen(cls, s, pos + 1) ELSE 0

\* The end of the leftmost-first match of prog[k..] in s starting after position
\* pos (greedy repetition, backtracking), or -1 if there is none.
RECURSIVE MatchEnd(_, _, _, _)
RECURSIVE TryRep(_, _, _, _, _)
MatchEnd(prog, k, s, pos) ==
    IF k > Len(prog) THEN pos
    ELSE IF prog[k].plus THEN TryRep(prog, k, s, pos, RunLen(prog[k].cls, s, pos))
    ELSE IF pos < Len(s) /\ AtomMatches(prog[k].cls, s[pos + 1])
         THEN MatchEnd(prog, k + 1, s, pos + 1)
         ELSE -1

TryRep(prog, k, s, pos, j) ==
    IF j < 1 THEN -1
    ELSE LET e == MatchEnd(prog, k + 1, s, pos + j)
         IN  IF e # -1 THEN e ELSE TryRep(prog, k, s, pos, j - 1)

\* (*regexp.Regexp).MatchString: an unanchored search
MatchString(prog, s) == \E pos \in 0..Len(s) : MatchEnd(prog, 1, s, pos) # -1

----------------------------------------------------------------------------
(* The rule list.  loadConfig compiles the patterns, disables a rule whose *)
(* URL regex does not compile and zeroes the counters.                     *)

LoadReplacement(b) ==
    [Find |-> b.Find, Replace |-> b.Replace, IsRegex |-> b.IsRegex,
     compiledRegex |-> IF b.IsRegex THEN RegexCompile(b.Find) ELSE NoRegex]

LoadOverride(o) ==
    LET compiled == IF o.IsRegex THEN RegexCompile(o.URLPattern) ELSE NoRegex
    IN  [Name |-> o.Name, Method |-> o.Method, URLPattern |-> o.URLPattern,
         IsRegex |-> o.IsRegex, StatusCode |-> o.StatusCode, Headers |-> o.Headers,
         BodyFile |-> o.BodyFile, BodyText |-> o.BodyText,
         BodyReplacements |-> [j \in DOMAIN o.BodyReplacements |->
                                  LoadReplacement(o.BodyReplacements[j])],
         Enabled |-> IF o.IsRegex /\ ~compiled.ok THEN FALSE ELSE o.Enabled,
         TriggerAfter |-> o.TriggerAfter, MaxTriggers |-> o.MaxTriggers,
         ResetAfter |-> o.ResetAfter,
         compiledRegex |-> compiled]

loadConfig(overrides) == [i \in DOMAIN overrides |-> LoadOverride(overrides[i])]

ZeroCounters(cfg) == [i \in DOMAIN cfg |-> 0]

\* A rule of the rules file, with the fields the examples leave at their defaults.
Rule(name, method, pattern, isRegex, bodyText, replacements, after, max, reset) ==
    [Name |-> name, Method |-> method, URLPattern |-> pattern, IsRegex |-> isRegex,
     StatusCode |-> 200, Headers |-> <<>>, BodyFile |-> "", BodyText |-> bodyText,
     BodyReplacements |-> replacements, Enabled |-> TRUE,
     TriggerAfter |-> after, MaxTriggers |-> max, ResetAfter |-> reset]

----------------------------------------------------------------------------
(* findMatchingOverride: the tests it makes on one rule.                   *)

\* a plausible slip: the method filter is compared byte for byte
MethodMatchesExactly(o, method) == o.Method = "*" \/ o.Method = method

MethodMatches(o, method) == o.Method = "*" \/ EqualFold(o.Method, method)

URLMatches(o, urlPath) ==
    IF o.IsRegex
    THEN o.compiledRegex.ok /\ MatchString(o.compiledRegex.prog, urlPath)
    ELSE Contains(urlPath, o.URLPattern)

RuleMatches(o, method, urlPath) ==
    o.Enabled /\ MethodMatches(o, method) /\ URLMatches(o, urlPath)

\* a plausible slip: the reset comes one request late
ShouldResetLate(o, rc) == o.ResetAfter > 0 /\ rc > o.ResetAfter

\* the reset test, made on the incremented requestCount
ShouldReset(o, rc) == o.ResetAfter > 0 /\ rc >= o.ResetAfter

\* a plausible slip: the max_triggers limit is not applied
ShouldTriggerNoLimit(o, rc, tc) == rc > o.TriggerAfter

\* a plausible slip: the threshold test admits the request that reaches it
ShouldTriggerAtThreshold(o, rc, tc) ==
    rc >= o.TriggerAfter /\ ~(o.MaxTriggers > 0 /\ tc >= o.MaxTriggers)

\* shouldTrigger, after both of its assignments
ShouldTrigger(o, rc, tc) ==
    rc > o.TriggerAfter /\ ~(o.MaxTriggers > 0 /\ tc >= o.MaxTriggers)

\* a plausible slip: a suppressed match ends the search instead of going on
DecideStopOnSuppress(o, rc, tc) ==
    IF ShouldReset(o, rc)
    THEN [requestCount |-> 0, triggerCount |-> 0, outcome |-> "reset", next |-> "continue"]
    ELSE IF ShouldTrigger(o, rc, tc)
    THEN [requestCount |-> rc, triggerCount |-> tc + 1, outcome |-> "fire", next |-> "return"]
    ELSE [requestCount |-> rc, triggerCount |-> tc, outcome |-> "suppressed", next |-> "returnNil"]

\* a plausible slip: the reset ends the search instead of going on
DecideResetStops(o, rc, tc) ==
    IF ShouldReset(o, rc)
    THEN [requestCount |-> 0, triggerCount |-> 0, outcome |-> "reset", next |-> "returnNil"]
    ELSE IF ShouldTrigger(o, rc, tc)
    THEN [requestCount |-> rc, triggerCount |-> tc + 1, outcome |-> "fire", next |-> "return"]
    ELSE [requestCount |-> rc, triggerCount |-> tc, outcome |-> "suppressed", next |-> "continue"]

\* a plausible slip: the reset clears requestCount and leaves triggerCount
DecideResetKeepsTriggers(o, rc, tc) ==
    IF ShouldReset(o, rc)
    THEN [requestCount |-> 0, triggerCount |-> tc, outcome |-> "reset", next |-> "continue"]
    ELSE IF ShouldTrigger(o, rc, tc)
    THEN [requestCount |-> rc, triggerCount |-> tc + 1, outcome |-> "fire", next |-> "return"]
    ELSE [requestCount |-> rc, triggerCount |-> tc, outcome |-> "suppressed", next |-> "continue"]

\* The body of "if matches" after requestCount++ (rc is the incremented count):
\* the new counters, and where control goes: "return" the rule, or "continue"
\* with the next rule (the explicit continue of the reset branch, and the end
\* of the loop body after the else branch).
Decide(o, rc, tc) ==
    IF ShouldReset(o, rc)
    THEN [requestCount |-> 0, triggerCount |-> 0, outcome |-> "reset", next |-> "continue"]
    ELSE IF ShouldTrigger(o, rc, tc)
    THEN [requestCount |-> rc, triggerCount |-> tc + 1, outcome |-> "fire", next |-> "return"]
    ELSE [requestCount |-> rc, triggerCount |-> tc, outcome |-> "suppressed", next |-> "continue"]

\* findMatchingOverride run to completion from rule i on: the rule returned
\* (0 = nil) and the counters it leaves.
RECURSIVE FindFrom(_, _, _, _, _)
FindFrom(i, rc, tc, method, urlPath) ==
    IF i > Len(config)
    THEN [override |-> 0, requestCount |-> rc, triggerCount |-> tc]
    ELSE IF ~RuleMatches(config[i], method, urlPath)
    THEN FindFrom(i + 1, rc, tc, method, urlPath)
    ELSE LET d   == Decide(config[i], rc[i] + 1, tc[i])
             rc2 == [rc EXCEPT ![i] = d.requestCount]
             tc2 == [tc EXCEPT ![i] = d.triggerCount]
         IN  IF d.next = "return"
             THEN [override |-> i, requestCount |-> rc2, triggerCount |-> tc2]
             ELSE IF d.next = "continue"
             THEN FindFrom(i + 1, rc2, tc2, method, urlPath)
             ELSE [override |-> 0, requestCount |-> rc2, triggerCount |-> tc2]

findMatchingOverride(rc, tc, method, urlPath) == FindFrom(1, rc, tc, method, urlPath)

----------------------------------------------------------------------------
(* The rule engine under concurrency: goroutines run findMatchingOverride  *)
(* and showStats step by step, taking each rule's mutex.                   *)

Procs == {1, 2}

PathA == <<"/", "a">>

\* the (method, path + "?" + query) pairs the concurrent engine is called with
EngineCalls ==
    {<<"GET", PathA>>, <<"POST", PathA>>, <<"GET", <<"/", "u", "/", "4", "2">>>>,
     <<"POST", <<"/", "b">>>>}

NoReplacements == <<>>

\* The rule lists the concurrent engine is run with.
EngineConfigs ==
    { <<Rule("first", "*", PathA, FALSE, <<"M">>, NoReplacements, 1, 1, 0),
        Rule("catch-all", "GET", <<"/">>, FALSE, <<"N">>, NoReplacements, 0, -1, 0)>>,
      <<Rule("first", "*", PathA, FALSE, <<"M">>, NoReplacements, 0, 2, 3),
        Rule("catch-all", "get", <<"/">>, FALSE, <<"N">>, NoReplacements, 0, 1, 0)>>,
      <<Rule("first", "*", <<"/", "u", "/", "\\d", "+">>, TRUE, <<"M">>, NoReplacements, 1, -1, 2),
        Rule("broken", "*", <<"/", "(">>, TRUE, <<"X">>, NoReplacements, 0, -1, 0),
        Rule("catch-all", "*", <<"/">>, FALSE, <<"N">>, NoReplacements, 1, 1, 0)>> }

NoTrail(cfg) == [i \in DOMAIN cfg |-> [incs |-> 0, trigs |-> 0, outcome |-> "none"]]

\* a request enters findMatchingOverride(method, urlPath)
FMOBegin(p, method, urlPath) ==
    /\ pc[p] = "idle"
    /\ started < MaxCalls
    /\ started' = started + 1
    /\ pc' = [pc EXCEPT ![p] = "loop"]
    /\ idx' = [idx EXCEPT ![p] = 1]
    /\ args' = [args EXCEPT ![p] = <<method, urlPath>>]
    /\ ret' = [ret EXCEPT ![p] = 0]
    /\ trail' = [trail EXCEPT ![p] = NoTrail(config)]
    /\ UNCHANGED <<config, requestCount, triggerCount, mutex, stat>>
    /\ UNCHANGED proxyVars

\* a plausible slip: the rule is locked and counted before it is matched
FMOLoopLockingEveryRule(p) ==
    /\ pc[p] = "loop"
    /\ IF idx[p] > Len(config)
       THEN /\ pc' = [pc EXCEPT ![p] = "done"]
            /\ ret' = [ret EXCEPT ![p] = 0]
       ELSE /\ pc' = [pc EXCEPT ![p] = "lock"]
            /\ ret' = ret
    /\ UNCHANGED <<config, requestCount, triggerCount, mutex, idx, args, stat, trail,
                   started>>
    /\ UNCHANGED proxyVars

\* the loop head and the unlocked tests of one rule (enabled, method, URL)
FMOLoop(p) ==
    /\ pc[p] = "loop"
    /\ IF idx[p] > Len(config)
       THEN /\ pc' = [pc EXCEPT ![p] = "done"]
            /\ ret' = [ret EXCEPT ![p] = 0]
            /\ idx' = idx
       ELSE IF RuleMatches(config[idx[p]], args[p][1], args[p][2])
       THEN /\ pc' = [pc EXCEPT ![p] = "lock"]
            /\ UNCHANGED <<ret, idx>>
       ELSE /\ idx' = [idx EXCEPT ![p] = @ + 1]
            /\ UNCHANGED <<ret, pc>>
    /\ UNCHANGED <<config, requestCount, triggerCount, mutex, args, stat, trail, started>>
    /\ UNCHANGED proxyVars

\* a plausible slip: the mutex is taken without waiting for it
MutexLockNoWait(p, i) == mutex' = [mutex EXCEPT ![i] = p]

\* sync.Mutex.Lock
MutexLock(p, i) == mutex[i] = 0 /\ mutex' = [mutex EXCEPT ![i] = p]

\* sync.Mutex.Unlock
MutexUnlock(p, i) == mutex' = [mutex EXCEPT ![i] = 0]

\* override.mutex.Lock()
FMOLock(p) ==
    /\ pc[p] = "lock"
    /\ MutexLock(p, idx[p])
    /\ pc' = [pc EXCEPT ![p] = "inc"]
    /\ UNCHANGED <<config, requestCount, triggerCount, idx, args, ret, stat, trail, started>>
    /\ UNCHANGED proxyVars

\* override.requestCount++
FMOInc(p) ==
    /\ pc[p] = "inc"
    /\ requestCount' = [requestCount EXCEPT ![idx[p]] = @ + 1]
    /\ trail' = [trail EXCEPT ![p][idx[p]].incs = @ + 1]
    /\ pc' = [pc EXCEPT ![p] = "decide"]
    /\ UNCHANGED <<config, triggerCount, mutex, idx, args, ret, stat, started>>
    /\ UNCHANGED proxyVars

\* the reset / trigger decision, its counter updates, the Unlock, and the
\* continue or return that follows
FMODecide(p) ==
    /\ pc[p] = "decide"
    /\ LET i == idx[p]
           d == Decide(config[i], requestCount[i], triggerCount[i])
       IN  /\ requestCount' = [requestCount EXCEPT ![i] = d.requestCount]
           /\ triggerCount' = [triggerCount EXCEPT ![i] = d.triggerCount]
           /\ trail' = [trail EXCEPT ![p][i].outcome = d.outcome,
                                     ![p][i].trigs = @ + (IF d.outcome = "fire" THEN 1 ELSE 0)]
           /\ MutexUnlock(p, i)
           /\ IF d.next = "continue"
              THEN /\ pc' = [pc EXCEPT ![p] = "loop"]
                   /\ idx' = [idx EXCEPT ![p] = i + 1]
                   /\ ret' = ret
              ELSE /\ pc' = [pc EXCEPT ![p] = "done"]
                   /\ ret' = [ret EXCEPT ![p] = IF d.next = "return" THEN i ELSE 0]
                   /\ idx' = idx
    /\ UNCHANGED <<config, args, stat, started>>
    /\ UNCHANGED proxyVars

\* the caller takes the result; the goroutine is free for the next call
FMOReturn(p) ==
    /\ pc[p] = "done"
    /\ pc' = [pc EXCEPT ![p] = "idle"]
    /\ idx' = [idx EXCEPT ![p] = 0]
    /\ UNCHANGED <<config, requestCount, triggerCount, mutex, args, ret, stat, trail, started>>
    /\ UNCHANGED proxyVars

\* a request for /_proxy_stats enters showStats
StatsBegin(p) ==
    /\ pc[p] = "idle"
    /\ started < MaxCalls
    /\ started' = started + 1
    /\ pc' = [pc EXCEPT ![p] = "sloop"]
    /\ idx' = [idx EXCEPT ![p] = 1]
    /\ stat' = [stat EXCEPT ![p] = <<>>]
    /\ trail' = [trail EXCEPT ![p] = NoTrail(config)]
    /\ UNCHANGED <<config, requestCount, triggerCount, mutex, args, ret>>
    /\ UNCHANGED proxyVars

\* showStats: the loop head
StatsLoop(p) ==
    /\ pc[p] = "sloop"
    /\ pc' = [pc EXCEPT ![p] = IF idx[p] > Len(config) THEN "sdone" ELSE "slock"]
    /\ UNCHANGED <<config, requestCount, triggerCount, mutex, idx, args, ret, stat, trail, started>>
    /\ UNCHANGED proxyVars

\* showStats: override.mutex.Lock()
StatsLock(p) ==
    /\ pc[p] = "slock"
    /\ MutexLock(p, idx[p])
    /\ pc' = [pc EXCEPT ![p] = "sreadrc"]
    /\ UNCHANGED <<config, requestCount, triggerCount, idx, args, ret, stat, trail, started>>
    /\ UNCHANGED proxyVars

\* showStats: "request_count": override.requestCount
StatsReadRequestCount(p) ==
    /\ pc[p] = "sreadrc"
    /\ stat' = [stat EXCEPT ![p] = Append(@, [request_count |-> requestCount[idx[p]],
                                              trigger_count |-> -1])]
    /\ pc' = [pc EXCEPT ![p] = "sreadtc"]
    /\ UNCHANGED <<config, requestCount, triggerCount, mutex, idx, args, ret, trail, started>>
    /\ UNCHANGED proxyVars

\* showStats: "trigger_count": override.triggerCount, then the Unlock
StatsReadTriggerCount(p) ==
    /\ pc[p] = "sreadtc"
    /\ stat' = [stat EXCEPT ![p][idx[p]].trigger_count = triggerCount[idx[p]]]
    /\ MutexUnlock(p, idx[p])
    /\ idx' = [idx EXCEPT ![p] = @ + 1]
    /\ pc' = [pc EXCEPT ![p] = "sloop"]
    /\ UNCHANGED <<config, requestCount, triggerCount, args, ret, trail, started>>
    /\ UNCHANGED proxyVars

\* showStats has written its JSON document
StatsReturn(p) ==
    /\ pc[p] = "sdone"
    /\ pc' = [pc EXCEPT ![p] = "idle"]
    /\ idx' = [idx EXCEPT ![p] = 0]
    /\ UNCHANGED <<config, requestCount, triggerCount, mutex, args, ret, stat, trail, started>>
    /\ UNCHANGED proxyVars

----------------------------------------------------------------------------
(* http.Header: a map from header name to the list of its values.          *)

NoHeader == <<>>

\* http.Header.Get: the first value, "" if there is none
HeaderGet(h, name) ==
    IF name \in DOMAIN h /\ h[name] # <<>> THEN h[name][1] ELSE ""

\* http.Header.Set
HeaderSet(h, name, value) ==
    [n \in DOMAIN h \cup {name} |-> IF n = name THEN <<value>> ELSE h[n]]

\* http.Header.Del
HeaderDel(h, name) == [n \in DOMAIN h \ {name} |-> h[n]]

\* strconv.Itoa
RECURSIVE Itoa(_)
Itoa(n) ==
    IF n < 10
    THEN <<"0", "1", "2", "3", "4", "5", "6", "7", "8", "9">>[n + 1]
    ELSE Itoa(n \div 10) \o Itoa(n % 10)

\* the concatenation of the pieces of a string ([]byte(s), string(b), +)
RECURSIVE Join(_)
Join(s) == IF s = <<>> THEN "" ELSE s[1] \o Join(Tail(s))

----------------------------------------------------------------------------
(* Bodies: gzip and the body replacements.                                 *)
(* A gzip stream is its header, the payload and its trailer; the header    *)
(* stands for everything that depends on who compressed (level, mtime, OS  *)
(* byte), so the origin's stream and compress/gzip's differ in it.         *)

\* decompressGzip: gzip.NewReader fails on a bad header, io.ReadAll on a
\* stream whose trailer is missing
decompressGzip(data) ==
    IF Len(data) >= 2 /\ data[1] \in {"gz:origin", "gz:go"} /\ data[Len(data)] = "crc"
    THEN [err |-> FALSE, data |-> SubSeq(data, 2, Len(data) - 1)]
    ELSE [err |-> TRUE, data |-> <<>>]

\* compressGzip; ok is FALSE when the gzip writer returns an error
compressGzip(data, ok) ==
    IF ok
    THEN [err |-> FALSE, data |-> <<"gz:go">> \o data \o <<"crc">>]
    ELSE [err |-> TRUE, data |-> <<>>]

\* bytes.ReplaceAll for a non-empty old: non-overlapping, left to right
RECURSIVE ReplaceFrom(_, _, _, _)
ReplaceFrom(s, old, new, pos) ==
    IF pos + Len(old) > Len(s) THEN SubSeq(s, pos + 1, Len(s))
    ELSE IF SubSeq(s, pos + 1, pos + Len(old)) = old
    THEN new \o ReplaceFrom(s, old, new, pos + Len(old))
    ELSE <<s[pos + 1]>> \o ReplaceFrom(s, old, new, pos + 1)

\* bytes.ReplaceAll for an empty old: new goes before every byte and at the end
RECURSIVE Intersperse(_, _, _)
Intersperse(s, new, pos) ==
    IF pos >= Len(s) THEN new
    ELSE new \o <<s[pos + 1]>> \o Intersperse(s, new, pos + 1)

\* bytes.ReplaceAll
ReplaceAll(s, old, new) ==
    IF old = <<>> THEN Intersperse(s, new, 0) ELSE ReplaceFrom(s, old, new, 0)

\* (*regexp.Regexp).ReplaceAll, for replacement texts without $ references
RECURSIVE RegexReplaceFrom(_, _, _, _)
RegexReplaceFrom(prog, s, repl, pos) ==
    LET e == MatchEnd(prog, 1, s, pos)
    IN  IF e > pos THEN repl \o RegexReplaceFrom(prog, s, repl, e)
        ELSE IF pos >= Len(s) THEN (IF e = pos /\ prog = <<>> THEN repl ELSE <<>>)
        ELSE (IF e = pos /\ prog = <<>> THEN repl ELSE <<>>)
             \o <<s[pos + 1]>> \o RegexReplaceFrom(prog, s, repl, pos + 1)

\* one pass of the loop of applyBodyReplacements
ApplyReplacement(result, replacement) ==
    IF replacement.IsRegex /\ replacement.compiledRegex.ok
    THEN RegexReplaceFrom(replacement.compiledRegex.prog, result, replacement.Replace, 0)
    ELSE ReplaceAll(result, replacement.Find, replacement.Replace)

RECURSIVE ApplyFrom(_, _, _)
ApplyFrom(result, replacements, i) ==
    IF i > Len(replacements) THEN result
    ELSE ApplyFrom(ApplyReplacement(result, replacements[i]), replacements, i + 1)

applyBodyReplacements(body, replacements) == ApplyFrom(body, replacements, 1)

----------------------------------------------------------------------------
(* The hop: header scrubbing and the cache.                                *)

\* a plausible slip: Upgrade is missing from the skip list
shouldSkipHeaderNoUpgrade(name) ==
    LET skipHeaders ==
            {"Connection", "Proxy-Connection", "Proxy-Authenticate",
             "Proxy-Authorization", "Te", "Trailer"}
            \cup (IF ~logSettings.EnableStreaming THEN {"Transfer-Encoding"} ELSE {})
    IN  \E skipHeader \in skipHeaders : ToLower(name) = ToLower(skipHeader)

shouldSkipHeader(name) ==
    LET skipHeaders ==
            {"Connection", "Proxy-Connection", "Proxy-Authenticate",
             "Proxy-Authorization", "Te", "Trailer", "Upgrade"}
            \cup (IF ~logSettings.EnableStreaming THEN {"Transfer-Encoding"} ELSE {})
    IN  \E skipHeader \in skipHeaders : ToLower(name) = ToLower(skipHeader)

\* copyHeaders: dst.Add(name, value) for every value of every header not skipped
copyHeaders(dst, src) ==
    LET kept == {n \in DOMAIN src : ~shouldSkipHeader(n)}
    IN  [n \in DOMAIN dst \cup kept |->
            (IF n \in DOMAIN dst THEN dst[n] ELSE <<>>)
            \o (IF n \in kept THEN src[n] ELSE <<>>)]

\* cloneHeaders
cloneHeaders(headers) == [n \in DOMAIN headers |-> headers[n]]

RECURSIVE KeyHeadersFrom(_, _)
KeyHeadersFrom(headers, i) ==
    IF i > Len(cacheSettings.KeyHeaders) THEN ""
    ELSE LET headerName == cacheSettings.KeyHeaders[i]
             headerValue == HeaderGet(headers, headerName)
         IN  (IF headerValue # "" THEN headerName \o ":" \o headerValue ELSE "")
             \o KeyHeadersFrom(headers, i + 1)

\* a plausible slip: a header that does not contribute is hashed too
generateCacheKeyWithAccept(method, url, headers) ==
    method \o url
    \o (IF HeaderGet(headers, "Authorization") # ""
        THEN "Authorization:" \o HeaderGet(headers, "Authorization") ELSE "")
    \o (IF HeaderGet(headers, "Content-Type") # ""
        THEN "Content-Type:" \o HeaderGet(headers, "Content-Type") ELSE "")
    \o (IF HeaderGet(headers, "Accept") # ""
        THEN "Accept:" \o HeaderGet(headers, "Accept") ELSE "")

\* generateCacheKey: the bytes written to the SHA-256 hash, which stand for
\* their digest
generateCacheKey(method, url, headers) ==
    LET auth == HeaderGet(headers, "Authorization")
        contentType == HeaderGet(headers, "Content-Type")
    IN  method \o url
        \o (IF auth # "" THEN "Authorization:" \o auth ELSE "")
        \o (IF contentType # "" THEN "Content-Type:" \o contentType ELSE "")
        \o KeyHeadersFrom(headers, 1)

NoEntry ==
    [StatusCode |-> 0, Headers |-> NoHeader, Body |-> <<>>, CachedAt |-> 0,
     ExpiresAt |-> 0, RequestURL |-> "", RequestHash |-> ""]

\* a plausible slip: the entry is returned without the expiry test
getCachedResponseNoExpiry(cache, key) ==
    IF key \in DOMAIN cache
    THEN [found |-> TRUE, entry |-> cache[key], cache |-> cache]
    ELSE [found |-> FALSE, entry |-> NoEntry, cache |-> cache]

\* getCachedResponse: the entry if time.Now().Before(entry.ExpiresAt); an
\* expired entry is deleted
getCachedResponse(cache, key) ==
    IF key \in DOMAIN cache
    THEN IF now < cache[key].ExpiresAt
         THEN [found |-> TRUE, entry |-> cache[key], cache |-> cache]
         ELSE [found |-> FALSE, entry |-> NoEntry,
               cache |-> [k \in DOMAIN cache \ {key} |-> cache[k]]]
    ELSE [found |-> FALSE, entry |-> NoEntry, cache |-> cache]

\* cacheResponse: responseCache.Store(key, entry)
cacheResponse(cache, key, statusCode, headers, body, url) ==
    LET entry == [StatusCode |-> statusCode, Headers |-> cloneHeaders(headers),
                  Body |-> body, CachedAt |-> now,
                  ExpiresAt |-> now + cacheSettings.TTL,
                  RequestURL |-> url, RequestHash |-> key]
    IN  [k \in DOMAIN cache \cup {key} |-> IF k = key THEN entry ELSE cache[k]]

\* A URL pattern is a sequence of pieces, "*" the wildcard.  matchURLPattern
\* quotes the pattern, turns every * into .* and anchors it at both ends.
RECURSIVE WildcardMatch(_, _, _, _)
WildcardMatch(urlStr, i, pattern, j) ==
    IF j > Len(pattern) THEN i > Len(urlStr)
    ELSE IF pattern[j] = "*"
    THEN \E k \in i..(Len(urlStr) + 1) : WildcardMatch(urlStr, k, pattern, j + 1)
    ELSE i <= Len(urlStr) /\ urlStr[i] = pattern[j]
         /\ WildcardMatch(urlStr, i + 1, pattern, j + 1)

matchURLPattern(urlStr, pattern) == WildcardMatch(urlStr, 1, pattern, 1)

\* shouldCacheURL
shouldCacheURL(urlStr) ==
    IF Len(cacheSettings.URLPatterns) = 0 THEN TRUE
    ELSE \E n \in DOMAIN cacheSettings.URLPatterns :
            matchURLPattern(urlStr, cacheSettings.URLPatterns[n])

----------------------------------------------------------------------------
(* The dispatcher.  A handler is run to completion on the mutable globals  *)
(* st (rule counters, cache, cache counters, modified flag) and returns    *)
(* them with what it sent upstream and wrote to the client.                *)

\* PROXY_TARGET, parsed
targetURL == [Scheme |-> "http", Host |-> "origin", Path |-> <<>>]

Globals ==
    [requestCount |-> requestCount, triggerCount |-> triggerCount,
     responseCache |-> responseCache, cacheHits |-> cacheHits,
     cacheMisses |-> cacheMisses, cacheModified |-> cacheModified]

\* what a handler reports: the path taken, the response written to the client
\* (WriteHeader's status, the header map at that moment, the bytes given to
\* Write), the request sent upstream, and the cache entry served or stored
Outcome(mode, statusCode, header, body) ==
    [mode |-> mode, StatusCode |-> statusCode, Header |-> header, Body |-> body,
     upstream |-> [sent |-> FALSE, Header |-> NoHeader, Body |-> <<>>],
     key |-> "", entry |-> NoEntry, stored |-> FALSE, rewrite |-> 0, err |-> ""]

\* http.Error: the plain-text error reply
httpError(header, message, code) ==
    Outcome("error", code,
            HeaderSet(HeaderSet(header, "Content-Type", "text/plain; charset=utf-8"),
                      "X-Content-Type-Options", "nosniff"),
            <<message, "\n">>)

\* path.Clean, on paths without "." and ".." elements
RECURSIVE CleanFrom(_, _)
CleanFrom(p, i) ==
    IF i > Len(p) THEN <<>>
    ELSE IF p[i] = "/" /\ (i = Len(p) \/ p[i + 1] = "/") /\ i > 1
    THEN CleanFrom(p, i + 1)
    ELSE IF p[i] = "/" /\ i < Len(p) /\ p[i + 1] = "/"
    THEN CleanFrom(p, i + 1)
    ELSE <<p[i]>> \o CleanFrom(p, i + 1)

\* path.Join(targetURL.Path, r.URL.Path)
PathJoin(base, path) ==
    IF base = <<>> /\ path = <<>> THEN <<>>
    ELSE CleanFrom(IF base = <<>> THEN path ELSE base \o <<"/">> \o path, 1)

\* proxyURL: the pieces of proxyURL.String()
ProxyURL(r, target) ==
    LET joined == PathJoin(target.Path, r.Path)
        combinedPath == IF HasSuffix(r.Path, <<"/">>) /\ ~HasSuffix(joined, <<"/">>)
                        THEN joined \o <<"/">> ELSE joined
    IN  <<target.Scheme \o "://" \o target.Host>> \o combinedPath
        \o (IF r.RawQuery # <<>> THEN <<"?">> \o r.RawQuery ELSE <<>>)

\* fullURL: r.URL.Path, plus "?" and the query if there is one
FullURL(r) == r.Path \o (IF r.RawQuery # <<>> THEN <<"?">> \o r.RawQuery ELSE <<>>)

\* a plausible slip: the rewrite lookup is done by the stateful selection
findMatchingOverrideForReplacementsCounting(rc, tc, method, urlPath) ==
    findMatchingOverride(rc, tc, method, urlPath)

\* a plausible slip: the rewrite lookup passes over a rule that has not yet
\* reached its trigger_after
findMatchingOverrideForReplacementsTriggered(rc, tc, method, urlPath) ==
    LET found == {i \in DOMAIN config :
                     /\ Len(config[i].BodyReplacements) > 0
                     /\ RuleMatches(config[i], method, urlPath)
                     /\ rc[i] > config[i].TriggerAfter}
    IN  [override |-> IF found = {} THEN 0
                      ELSE CHOOSE i \in found : \A j \in found : i <= j,
         requestCount |-> rc, triggerCount |-> tc]

\* findMatchingOverrideForReplacements: the first enabled rule with
\* replacements whose method and URL match; it reads no counter
findMatchingOverrideForReplacements(rc, tc, method, urlPath) ==
    LET found == {i \in DOMAIN config :
                     /\ Len(config[i].BodyReplacements) > 0
                     /\ RuleMatches(config[i], method, urlPath)}
    IN  [override |-> IF found = {} THEN 0
                      ELSE CHOOSE i \in found : \A j \in found : i <= j,
         requestCount |-> rc, triggerCount |-> tc]

\* the files body_file names
ReadFile(name) == <<"F", "b">>

\* handleOverride, from the Content-Length on: the body is final
MockReply(header0, override, body) ==
    Outcome("mock", override.StatusCode,
            IF Len(body) > 0 THEN HeaderSet(header0, "Content-Length", Itoa(Len(body)))
            ELSE header0,
            body)

\* a plausible slip: the body of the mock is sent as it was read
MockBodyUnreplaced(header0, override, body0) == MockReply(header0, override, body0)

\* handleOverride, from the replacements on: the body has been read
MockBody(header0, override, body0) ==
    MockReply(header0, override,
              IF Len(override.BodyReplacements) > 0 /\ Len(body0) > 0
              THEN applyBodyReplacements(body0, override.BodyReplacements)
              ELSE body0)

\* a plausible slip: the error of os.ReadFile is dropped and the mock goes out
\* with an empty body
MockReadIgnoringError(header0, override, env) ==
    MockBody(header0, override,
             IF override.BodyFile # "" /\ env.fileOk THEN ReadFile(override.BodyFile)
             ELSE override.BodyText)

\* handleOverride, after the rule's headers have been set
MockRead(header0, override, env) ==
    IF override.BodyFile # "" /\ ~env.fileOk
    THEN [httpError(header0, "file", 500) EXCEPT !.mode = "mock", !.err = "file"]
    ELSE MockBody(header0, override,
                  IF override.BodyFile # "" THEN ReadFile(override.BodyFile)
                  ELSE override.BodyText)

\* a plausible slip: a firing whose body_file cannot be read is given back
handleOverrideRollingBack(st, override, env) ==
    [st  |-> IF override.BodyFile # "" /\ ~env.fileOk
             THEN [st EXCEPT !.triggerCount =
                       [i \in DOMAIN config |->
                           IF config[i] = override THEN st.triggerCount[i] - 1
                           ELSE st.triggerCount[i]]]
             ELSE st,
     out |-> MockRead([n \in DOMAIN override.Headers |-> <<override.Headers[n]>>],
                      override, env)]

\* handleOverride
handleOverride(st, override, env) ==
    [st  |-> st,
     out |-> MockRead([n \in DOMAIN override.Headers |-> <<override.Headers[n]>>],
                      override, env)]

\* serveCachedResponse
serveCachedResponse(entry) ==
    Outcome("hit", entry.StatusCode,
            HeaderSet(HeaderSet(copyHeaders(NoHeader, entry.Headers), "X-Cache", "HIT"),
                      "X-Cache-Expires", Itoa(entry.ExpiresAt)),
            entry.Body)

\* a plausible slip: Content-Encoding stays when the compression back fails
RecompressKeepingEncoding(header, modifiedBody, rez) ==
    [Header |-> header, Body |-> IF ~rez.err THEN rez.data ELSE modifiedBody]

\* bufferedProxyRequest, the rewrite: the compression back of a body that was
\* compressed (Content-Encoding is deleted if that fails)
Recompress(header, modifiedBody, rez) ==
    IF ~rez.err THEN [Header |-> header, Body |-> rez.data]
    ELSE [Header |-> HeaderDel(header, "Content-Encoding"), Body |-> modifiedBody]

\* a plausible slip: a body that was compressed is not compressed back
RewrittenPlain(header, wasCompressed, modifiedBody, env) ==
    [Header |-> header, Body |-> modifiedBody]

\* bufferedProxyRequest, the rewrite: after the replacements
Rewritten(header, wasCompressed, modifiedBody, env) ==
    IF wasCompressed
    THEN Recompress(header, modifiedBody, compressGzip(modifiedBody, env.gzipOk))
    ELSE [Header |-> header, Body |-> modifiedBody]

\* bufferedProxyRequest, the rewrite: after the attempt to decompress
Decompressed(replacements, origin, wasCompressed, unz, env) ==
    Rewritten(origin.Header, wasCompressed,
              applyBodyReplacements(IF wasCompressed THEN unz.data ELSE origin.Body,
                                    replacements),
              env)

\* bufferedProxyRequest, the rewrite of the response with the rule found
RewriteWith(replacements, origin, isGzip, unz, env) ==
    Decompressed(replacements, origin, isGzip /\ ~unz.err, unz, env)

\* bufferedProxyRequest: the response after the rewrite, if there is one
RewriteResponse(matched, origin, env) ==
    IF matched # 0 /\ Len(config[matched].BodyReplacements) > 0 /\ Len(origin.Body) > 0
    THEN RewriteWith(config[matched].BodyReplacements, origin,
                     ToLower(HeaderGet(origin.Header, "Content-Encoding")) = "gzip",
                     decompressGzip(origin.Body), env)
    ELSE [Header |-> origin.Header, Body |-> origin.Body]

\* bufferedProxyRequest, the end: the headers and the body go to the client
BufferedWrite(st, origin, cacheKey, proxyReq, matched, rewritten, store, header) ==
    [st  |-> st,
     out |-> [Outcome("buffered", origin.StatusCode,
                      IF Len(rewritten.Body) > 0
                      THEN HeaderSet(header, "Content-Length", Itoa(Len(rewritten.Body)))
                      ELSE header,
                      rewritten.Body) EXCEPT
                 !.key = cacheKey, !.upstream = proxyReq, !.stored = store,
                 !.entry = IF store THEN st.responseCache[cacheKey] ELSE NoEntry,
                 !.rewrite = matched]]

\* bufferedProxyRequest, the store: cacheResponse, which also marks the cache
\* modified
BufferedStore(st, origin, url, cacheKey, proxyReq, matched, rewritten, store) ==
    BufferedWrite(IF store
                  THEN [st EXCEPT !.responseCache =
                                      cacheResponse(@, cacheKey, origin.StatusCode,
                                                    rewritten.Header, rewritten.Body, url),
                                  !.cacheModified = 1]
                  ELSE st,
                  origin, cacheKey, proxyReq, matched, rewritten, store,
                  copyHeaders(NoHeader, rewritten.Header))

\* a plausible slip: only the responses without an error status are stored
BufferedRewriteSuccessOnly(st, r, proxyURL, env, cacheKey, proxyReq, sel) ==
    BufferedStore([st EXCEPT !.requestCount = sel.requestCount,
                             !.triggerCount = sel.triggerCount],
                  env.origin, Join(proxyURL), cacheKey, proxyReq, sel.override,
                  RewriteResponse(sel.override, env.origin, env),
                  /\ cacheSettings.Enabled /\ shouldCacheURL(proxyURL)
                  /\ env.origin.StatusCode < 400)

\* bufferedProxyRequest, after the rewrite-only lookup
BufferedRewrite(st, r, proxyURL, env, cacheKey, proxyReq, sel) ==
    BufferedStore([st EXCEPT !.requestCount = sel.requestCount,
                             !.triggerCount = sel.triggerCount],
                  env.origin, Join(proxyURL), cacheKey, proxyReq, sel.override,
                  RewriteResponse(sel.override, env.origin, env),
                  cacheSettings.Enabled /\ shouldCacheURL(proxyURL))

\* a plausible slip: a failed upstream request is reported as the proxy's own
\* error
BufferedForwardInternalError(st, r, proxyURL, env, cacheKey, proxyReq) ==
    IF env.doErr \/ env.readErr
    THEN [st  |-> st,
          out |-> [httpError(NoHeader, "do", 500) EXCEPT
                      !.mode = "buffered", !.err = IF env.doErr THEN "do" ELSE "read",
                      !.key = cacheKey, !.upstream = proxyReq]]
    ELSE BufferedRewrite(st, r, proxyURL, env, cacheKey, proxyReq,
                         findMatchingOverrideForReplacements(
                             st.requestCount, st.triggerCount, r.Method, FullURL(r)))

\* bufferedProxyRequest, the forward: the request is sent and the response read
BufferedForward(st, r, proxyURL, env, cacheKey, proxyReq) ==
    IF env.doErr
    THEN [st  |-> st,
          out |-> [httpError(NoHeader, "do", 502) EXCEPT
                      !.mode = "buffered", !.err = "do", !.key = cacheKey,
                      !.upstream = proxyReq]]
    ELSE IF env.readErr
    THEN [st  |-> st,
          out |-> [httpError(NoHeader, "read", 500) EXCEPT
                      !.mode = "buffered", !.err = "read", !.key = cacheKey,
                      !.upstream = proxyReq]]
    ELSE BufferedRewrite(st, r, proxyURL, env, cacheKey, proxyReq,
                         findMatchingOverrideForReplacements(
                             st.requestCount, st.triggerCount, r.Method, FullURL(r)))

\* bufferedProxyRequest: the request sent upstream
ProxyReq(r, copied) ==
    [sent |-> TRUE,
     Header |-> HeaderDel(IF Len(r.Body) > 0
                          THEN HeaderSet(copied, "Content-Length", Itoa(Len(r.Body)))
                          ELSE copied,
                          "Transfer-Encoding"),
     Body |-> r.Body]

\* bufferedProxyRequest, after a miss (or with the cache disabled)
BufferedMiss(st, r, proxyURL, env, cacheKey) ==
    IF env.bodyErr
    THEN [st  |-> st,
          out |-> [httpError(NoHeader, "body", 400) EXCEPT
                      !.mode = "buffered", !.err = "body", !.key = cacheKey]]
    ELSE BufferedForward(st, r, proxyURL, env, cacheKey,
                         ProxyReq(r, copyHeaders(NoHeader, r.Header)))

\* bufferedProxyRequest, after the cache lookup
BufferedLookup(st, r, proxyURL, env, cacheKey, cached) ==
    IF cached.found
    THEN [st  |-> [st EXCEPT !.cacheHits = @ + 1],
          out |-> [serveCachedResponse(cached.entry) EXCEPT
                      !.key = cacheKey, !.entry = cached.entry]]
    ELSE BufferedMiss([st EXCEPT !.responseCache = cached.cache, !.cacheMisses = @ + 1],
                      r, proxyURL, env, cacheKey)

\* bufferedProxyRequest, with the cache key computed
BufferedCached(st, r, proxyURL, env, cacheKey) ==
    IF cacheSettings.Enabled
    THEN BufferedLookup(st, r, proxyURL, env, cacheKey,
                        getCachedResponse(st.responseCache, cacheKey))
    ELSE BufferedMiss(st, r, proxyURL, env, "")

\* bufferedProxyRequest
bufferedProxyRequest(st, r, proxyURL, env) ==
    BufferedCached(st, r, proxyURL, env,
                   generateCacheKey(r.Method, Join(proxyURL), r.Header))

\* the Content-Type values that contain "text/event-stream" once lowered
IsEventStream(contentType) ==
    ToLower(contentType) \in {"text/event-stream", "text/event-stream; charset=utf-8"}

\* streamingProxyRequest, from the check for an event stream on
StreamWrite(origin, proxyReq, copied) ==
    [Outcome("stream", origin.StatusCode,
             IF IsEventStream(HeaderGet(origin.Header, "Content-Type"))
             THEN HeaderDel(HeaderSet(HeaderSet(copied, "Cache-Control", "no-cache"),
                                      "Connection", "keep-alive"),
                            "Content-Length")
             ELSE copied,
             origin.Body) EXCEPT !.upstream = proxyReq]

\* streamingProxyRequest, with the upstream request built
StreamForward(st, env, proxyReq) ==
    [st  |-> st,
     out |-> IF env.doErr
             THEN [httpError(NoHeader, "do", 502) EXCEPT
                      !.mode = "stream", !.err = "do", !.upstream = proxyReq]
             ELSE StreamWrite(env.origin, proxyReq,
                              copyHeaders(NoHeader, env.origin.Header))]

\* streamingProxyRequest
streamingProxyRequest(st, r, proxyURL, env) ==
    StreamForward(st, env,
                  [sent |-> TRUE, Header |-> copyHeaders(NoHeader, r.Header),
                   Body |-> r.Body])

\* a plausible slip: streaming is chosen whenever it is enabled
RouteStreamingFirst(override) ==
    IF override # 0 /\ (config[override].BodyFile # "" \/ config[override].BodyText # <<>>)
    THEN "mock"
    ELSE IF logSettings.EnableStreaming THEN "stream" ELSE "buffered"

\* proxyRequest: the choice between the full override and the two forwarding
\* modes, made on the result of findMatchingOverride
Route(override) ==
    IF override # 0 /\ (config[override].BodyFile # "" \/ config[override].BodyText # <<>>)
    THEN "mock"
    ELSE IF logSettings.EnableStreaming /\ ~cacheSettings.Enabled THEN "stream"
    ELSE "buffered"

\* proxyRequest, the end: what the handler called has done
Dispatched(st1, override, done) ==
    [st |-> done.st, out |-> done.out, override |-> override, afterSelection |-> st1]

\* proxyRequest, after findMatchingOverride: the handler for the route
Routed(st1, r, proxyURL, env, override, route) ==
    Dispatched(st1, override,
               IF route = "mock" THEN handleOverride(st1, config[override], env)
               ELSE IF route = "stream" THEN streamingProxyRequest(st1, r, proxyURL, env)
               ELSE bufferedProxyRequest(st1, r, proxyURL, env))

\* proxyRequest, with the result of findMatchingOverride
Selected(st, r, proxyURL, env, sel) ==
    Routed([st EXCEPT !.requestCount = sel.requestCount,
                      !.triggerCount = sel.triggerCount],
           r, proxyURL, env, sel.override, Route(sel.override))

\* a plausible slip: the cache is consulted before the rules, so a request the
\* cache can answer never reaches the stateful selection
proxyRequestCacheFirst(st, r, target, env) ==
    IF /\ cacheSettings.Enabled
       /\ getCachedResponse(st.responseCache,
                            generateCacheKey(r.Method, Join(ProxyURL(r, target)),
                                             r.Header)).found
    THEN Dispatched(st, 0, bufferedProxyRequest(st, r, ProxyURL(r, target), env))
    ELSE Selected(st, r, ProxyURL(r, target), env,
                  findMatchingOverride(st.requestCount, st.triggerCount,
                                       r.Method, FullURL(r)))

\* a plausible slip: the test for the internal endpoints is missing
proxyRequestUnguarded(st, r, target, env) ==
    Selected(st, r, ProxyURL(r, target), env,
             findMatchingOverride(st.requestCount, st.triggerCount,
                                  r.Method, FullURL(r)))

\* proxyRequest
proxyRequest(st, r, target, env) ==
    IF HasPrefix(r.Path, <<"/", "_proxy">>)
    THEN [st |-> st, out |-> Outcome("swallowed", 200, NoHeader, <<>>),
          override |-> 0, afterSelection |-> st]
    ELSE Selected(st, r, ProxyURL(r, target), env,
                  findMatchingOverride(st.requestCount, st.triggerCount,
                                       r.Method, FullURL(r)))

----------------------------------------------------------------------------
(* Persistence of the cache.                                               *)

ZeroSnapshot == [Entries |-> <<>>, SavedAt |-> 0, CacheHits |-> 0, CacheMiss |-> 0]

\* gob sends the fields of a struct that differ from the zero value of their
\* type, and the decoder leaves the fields it was not sent at that zero value
GobStruct(v, zero) == [f \in {g \in DOMAIN v : v[g] # zero[g]} |-> v[f]]

GobFill(sent, zero) == [f \in DOMAIN zero |-> IF f \in DOMAIN sent THEN sent[f] ELSE zero[f]]

\* gob: the encoding of a CacheSnapshot, and its decoding
gobEncode(snapshot) ==
    <<"gob", GobStruct([snapshot EXCEPT
                           !.Entries = [k \in DOMAIN @ |-> GobStruct(@[k], NoEntry)]],
                       ZeroSnapshot)>>

gobDecode(data) ==
    IF Len(data) = 2 /\ data[1] = "gob"
    THEN [err |-> FALSE,
          snapshot |-> [GobFill(data[2], ZeroSnapshot) EXCEPT
                           !.Entries = [k \in DOMAIN @ |-> GobFill(@[k], NoEntry)]]]
    ELSE [err |-> TRUE, snapshot |-> ZeroSnapshot]

NoFile == [exists |-> FALSE, data |-> <<>>]

\* a plausible slip: the snapshot takes every entry, expired or not
SnapshotOfEverything(cache, hits, misses) ==
    [Entries |-> cache, SavedAt |-> now, CacheHits |-> hits, CacheMiss |-> misses]

\* saveCacheToDisk, the beginning: the snapshot taken by ranging over the cache
SnapshotOf(cache, hits, misses) ==
    [Entries |-> [k \in {c \in DOMAIN cache : now < cache[c].ExpiresAt} |-> cache[k]],
     SavedAt |-> now, CacheHits |-> hits, CacheMiss |-> misses]

\* os.WriteFile: the file is opened with O_TRUNC, which empties it, then the
\* bytes are written; a write that stops early leaves the first of them
Written(data, full) ==
    [exists |-> TRUE, data |-> IF full THEN data ELSE SubSeq(data, 1, 1)]

\* saveCacheToDisk: the file it leaves and whether it returned an error.
\* writeErr is what the system does to the write: "" (it succeeds), "gzip"
\* (the compressor fails), "open" (the file cannot be opened) or "short"
\* (the file is truncated and the write stops after the first bytes).
saveCacheToDisk(cache, hits, misses, file, writeErr) ==
    LET snapshot == SnapshotOf(cache, hits, misses)
        gzipData == compressGzip(gobEncode(snapshot), writeErr # "gzip")
    IN  IF DOMAIN snapshot.Entries = {} THEN [err |-> FALSE, file |-> NoFile]
        ELSE IF gzipData.err \/ writeErr = "open" THEN [err |-> TRUE, file |-> file]
        ELSE [err |-> writeErr = "short",
              file |-> Written(gzipData.data, writeErr # "short")]

\* loadCacheFromDisk, run on the empty cache of a fresh process
loadCacheFromDisk(file) ==
    LET gobData == decompressGzip(file.data)
        decoded == gobDecode(gobData.data)
        snapshot == decoded.snapshot
        loaded == {k \in DOMAIN snapshot.Entries : now < snapshot.Entries[k].ExpiresAt}
    IN  IF ~file.exists \/ gobData.err \/ decoded.err
        THEN [responseCache |-> <<>>, cacheHits |-> 0, cacheMisses |-> 0]
        ELSE [responseCache |-> [k \in loaded |-> snapshot.Entries[k]],
              cacheHits |-> IF loaded # {} THEN snapshot.CacheHits ELSE 0,
              cacheMisses |-> IF loaded # {} THEN snapshot.CacheMiss ELSE 0]

----------------------------------------------------------------------------
(* The server: requests handled one at a time, the clock, the persistence  *)
(* worker and restarts.                                                    *)

StatsPath == <<"/", "_proxy", "_stats">>

\* showStats: the JSON document, as its rows and the cache figures
showStats(st) ==
    Outcome("stats", 200, HeaderSet(NoHeader, "Content-Type", "application/json"),
            <<[overrides |-> [i \in DOMAIN config |->
                                 [name |-> config[i].Name,
                                  request_count |-> st.requestCount[i],
                                  trigger_count |-> st.triggerCount[i]]],
               cache_hits |-> st.cacheHits, cache_misses |-> st.cacheMisses,
               cache_size |-> Cardinality(DOMAIN st.responseCache)]>>)

\* the handler main installs when PROXY_TARGET is set
ServeHTTP(st, r, env) ==
    IF r.Path = StatsPath
    THEN [st |-> st, out |-> showStats(st), override |-> 0, afterSelection |-> st]
    ELSE proxyRequest(st, r, targetURL, env)

Hello == <<"h", "e", "l", "l", "o">>

HopByHop ==
    {"Connection", "Proxy-Connection", "Proxy-Authenticate", "Proxy-Authorization",
     "Te", "Trailer", "Upgrade"}

\* every hop-by-hop header, with a value
HopByHopHeaders == [h \in HopByHop |-> <<"x">>]

\* the requests clients send
GetA == [Method |-> "GET", Path |-> PathA, RawQuery |-> <<>>,
         Header |-> "Authorization" :> <<"t">>, Body |-> <<>>]

GetAHop ==
    [Method |-> "GET", Path |-> PathA, RawQuery |-> <<>>,
     Header |-> HopByHopHeaders @@ ("Accept" :> <<"*/*">>)
                @@ ("Authorization" :> <<"t">>)
                @@ ("Transfer-Encoding" :> <<"chunked">>),
     Body |-> <<>>]

PostA ==
    [Method |-> "POST", Path |-> PathA, RawQuery |-> <<"q">>,
     Header |-> ("Authorization" :> <<"t">>) @@ ("Content-Type" :> <<"application/json">>),
     Body |-> <<"{", "}">>]

GetStats == [Method |-> "GET", Path |-> StatsPath, RawQuery |-> <<>>,
             Header |-> NoHeader, Body |-> <<>>]

GetInternal == [Method |-> "GET", Path |-> <<"/", "_proxy", "x">>, RawQuery |-> <<>>,
                Header |-> NoHeader, Body |-> <<>>]

\* a request without headers whose path ends in the text that GetA's
\* Authorization header adds to the cache key
GetAPath == [Method |-> "GET", Path |-> PathA \o <<"Authorization:", "t">>,
             RawQuery |-> <<>>, Header |-> NoHeader, Body |-> <<>>]

ProxiedRequests == {GetA, GetAHop, PostA, GetAPath}

Requests == ProxiedRequests \cup {GetStats, GetInternal}

\* what the origin answers
OriginPlain ==
    [StatusCode |-> 200,
     Header |-> ("Content-Type" :> <<"text/plain">>) @@ ("Content-Length" :> <<"5">>),
     Body |-> Hello]

OriginGzip ==
    [StatusCode |-> 200,
     Header |-> ("Content-Encoding" :> <<"gzip">>) @@ ("Content-Length" :> <<"7">>),
     Body |-> <<"gz:origin">> \o Hello \o <<"crc">>]

\* a compressed body in which no rule of the deployments finds anything
OriginGzipData ==
    [StatusCode |-> 200,
     Header |-> ("Content-Encoding" :> <<"gzip">>) @@ ("Content-Length" :> <<"4">>),
     Body |-> <<"gz:origin", "d", ":", "crc">>]

OriginSSE ==
    [StatusCode |-> 200,
     Header |-> HopByHopHeaders @@ ("Content-Type" :> <<"text/event-stream">>)
                @@ ("Content-Length" :> <<"2">>)
                @@ ("Transfer-Encoding" :> <<"chunked">>),
     Body |-> <<"d", ":">>]

OriginError ==
    [StatusCode |-> 500,
     Header |-> HopByHopHeaders @@ ("Transfer-Encoding" :> <<"chunked">>),
     Body |-> <<>>]

Fine(origin) ==
    [origin |-> origin, bodyErr |-> FALSE, doErr |-> FALSE, readErr |-> FALSE,
     fileOk |-> TRUE, gzipOk |-> TRUE]

\* the environment of one request: the origin's answer and what fails
Envs ==
    {Fine(OriginPlain), Fine(OriginGzip), Fine(OriginGzipData), Fine(OriginSSE),
     Fine(OriginError),
     [Fine(OriginPlain) EXCEPT !.bodyErr = TRUE],
     [Fine(OriginPlain) EXCEPT !.doErr = TRUE],
     [Fine(OriginPlain) EXCEPT !.readErr = TRUE],
     [Fine(OriginPlain) EXCEPT !.fileOk = FALSE],
     [Fine(OriginGzip) EXCEPT !.gzipOk = FALSE]}

Literal(find, replace) == [Find |-> find, Replace |-> replace, IsRegex |-> FALSE]

NoCache == [Enabled |-> FALSE, TTL |-> 0, KeyHeaders |-> <<>>, URLPatterns |-> <<>>]

\* The cyclic scenario of the README: one rule that matches every request,
\* trigger_after 3, max_triggers 2, reset_after 10, body MOCK.
CycleDeployment ==
    [streaming |-> FALSE, cache |-> NoCache,
     overrides |-> <<Rule("cycle", "*", <<"/">>, FALSE, <<"M", "O", "C", "K">>,
                          NoReplacements, 3, 2, 10)>>]

\* The deployments of the dispatcher: streaming and cache settings, rules.
Deployments ==
    { \* cache and streaming both on, CACHE_URL_PATTERNS=*/a,*?q; a rewrite-only
      \* rule that shortens the body and fires from its third match on, and a
      \* mock read from a file, with a replacement, that fires from its second
      \* match on
      [streaming |-> TRUE,
       cache |-> [Enabled |-> TRUE, TTL |-> 1, KeyHeaders |-> <<>>,
                  URLPatterns |-> <<<<"*", "/", "a">>, <<"*", "?", "q">>>>],
       overrides |-> <<Rule("shorten", "GET", PathA, FALSE, <<>>,
                            <<Literal(Hello, <<"h", "i">>)>>, 2, 0, 0),
                       [Rule("file", "POST", PathA, FALSE, <<>>,
                             <<Literal(<<"F">>, <<"G", "G">>)>>, 1, 0, 0)
                            EXCEPT !.BodyFile = "f.json"]>>],
      \* streaming on, cache off; a mock whose text is rewritten, and a
      \* rewrite-only rule
      [streaming |-> TRUE, cache |-> NoCache,
       overrides |-> <<Rule("mock", "POST", PathA, FALSE, <<"M", "O", "C", "K">>,
                            <<Literal(<<"O", "C">>, <<>>)>>, 0, 1, 0),
                       Rule("trim", "GET", PathA, FALSE, <<>>,
                            <<Literal(Hello, <<"h", "i">>)>>, 0, 0, 0)>>],
      \* neither; a rewrite-only rule that empties the body
      [streaming |-> FALSE, cache |-> NoCache,
       overrides |-> <<Rule("empty", "*", PathA, FALSE, <<>>,
                            <<Literal(Hello, <<>>)>>, 0, 0, 0)>>] }

\* nothing handled yet by this process
NoResponse ==
    Outcome("none", 0, NoHeader, <<>>)
    @@ [request |-> [Method |-> "", Path |-> <<>>, RawQuery |-> <<>>,
                     Header |-> NoHeader, Body |-> <<>>],
        received |-> NoHeader, receivedBody |-> <<>>, override |-> 0,
        before |-> [requestCount |-> <<>>, triggerCount |-> <<>>],
        selected |-> [requestCount |-> <<>>, triggerCount |-> <<>>],
        hitsBefore |-> 0, missesBefore |-> 0, at |-> 0, nth |-> 0]

\* the record of one handled request
Response(st, r, env, done) ==
    done.out
    @@ [request |-> r,
        received |-> IF done.out.upstream.sent /\ done.out.err = ""
                     THEN env.origin.Header ELSE NoHeader,
        receivedBody |-> IF done.out.upstream.sent /\ done.out.err = ""
                         THEN env.origin.Body ELSE <<>>,
        override |-> done.override,
        before |-> [requestCount |-> st.requestCount, triggerCount |-> st.triggerCount],
        selected |-> [requestCount |-> done.afterSelection.requestCount,
                      triggerCount |-> done.afterSelection.triggerCount],
        hitsBefore |-> st.cacheHits, missesBefore |-> st.cacheMisses,
        at |-> now, nth |-> resp.nth + 1]

\* the persistence worker between two ticks of its ticker
Asleep == [pc |-> "sleep", data |-> <<>>, err |-> FALSE]

\* the server without a dispatcher, for the concurrent rule engine
ProxyOff ==
    /\ logSettings = [EnableStreaming |-> FALSE]
    /\ cacheSettings = NoCache
    /\ responseCache = <<>>
    /\ cacheHits = 0
    /\ cacheMisses = 0
    /\ cacheModified = 0
    /\ cacheFile = NoFile
    /\ worker = Asleep
    /\ now = 0
    /\ resp = NoResponse
    /\ served = 0

\* no goroutine is inside the rule engine
EngineIdle ==
    /\ mutex = ZeroCounters(config)
    /\ pc = [p \in Procs |-> "idle"]
    /\ idx = [p \in Procs |-> 0]
    /\ args = [p \in Procs |-> <<"", <<>>>>]
    /\ ret = [p \in Procs |-> 0]
    /\ stat = [p \in Procs |-> <<>>]
    /\ trail = [p \in Procs |-> NoTrail(config)]
    /\ started = 0

\* main, up to ListenAndServe, on a machine without a cache file
Start(deployment) ==
    /\ logSettings = [EnableStreaming |-> deployment.streaming]
    /\ cacheSettings = deployment.cache
    /\ config = loadConfig(deployment.overrides)
    /\ requestCount = ZeroCounters(config)
    /\ triggerCount = ZeroCounters(config)
    /\ responseCache = <<>>
    /\ cacheHits = 0
    /\ cacheMisses = 0
    /\ cacheModified = 0
    /\ cacheFile = NoFile
    /\ worker = Asleep
    /\ now = 0
    /\ resp = NoResponse
    /\ served = 0
    /\ EngineIdle

Init == \E deployment \in Deployments : Start(deployment)

\* one request, at the end of its handler: the globals it leaves
Served(r, env, done) ==
    /\ requestCount' = done.st.requestCount
    /\ triggerCount' = done.st.triggerCount
    /\ responseCache' = done.st.responseCache
    /\ cacheHits' = done.st.cacheHits
    /\ cacheMisses' = done.st.cacheMisses
    /\ cacheModified' = done.st.cacheModified
    /\ resp' = Response(Globals, r, env, done)
    /\ served' = served + 1
    /\ UNCHANGED <<config, logSettings, cacheSettings, cacheFile, worker, now>>
    /\ UNCHANGED engineVars

\* one request, from its arrival to the end of its handler
Serve(r, env) == Served(r, env, ServeHTTP(Globals, r, env))

Handle(r, env) == served < MaxRequests /\ Serve(r, env)

\* time passes
Tick ==
    /\ now < MaxTime
    /\ now' = now + 1
    /\ UNCHANGED <<counterVars, engineVars, logSettings, cacheSettings, responseCache,
                   cacheHits, cacheMisses, cacheModified, cacheFile, worker, resp,
                   served>>

\* what a step of the persistence worker leaves alone
WorkerFrame ==
    UNCHANGED <<counterVars, engineVars, logSettings, cacheSettings, responseCache,
                cacheHits, cacheMisses, now, resp, served>>

\* saveCacheToDisk, up to os.WriteFile: with no live entry the file is removed,
\* otherwise the snapshot is encoded and compressed
Snapshotted(snapshot, gzipData) ==
    IF DOMAIN snapshot.Entries = {}
    THEN cacheFile' = NoFile /\ worker' = [pc |-> "clear", data |-> <<>>, err |-> FALSE]
    ELSE /\ cacheFile' = cacheFile
         /\ worker' = IF gzipData.err THEN [pc |-> "clear", data |-> <<>>, err |-> TRUE]
                      ELSE [pc |-> "open", data |-> gzipData.data, err |-> FALSE]

\* cachePersistenceWorker: a tick of the ticker finds the cache modified and
\* saveCacheToDisk takes its snapshot
WorkerSnapshot(gzipOk) ==
    /\ cacheSettings.Enabled
    /\ worker.pc = "sleep"
    /\ cacheModified = 1
    /\ Snapshotted(SnapshotOf(responseCache, cacheHits, cacheMisses),
                   compressGzip(gobEncode(SnapshotOf(responseCache, cacheHits,
                                                     cacheMisses)), gzipOk))
    /\ UNCHANGED cacheModified
    /\ WorkerFrame

\* os.WriteFile opens the file, which empties it
WorkerOpen(openOk) ==
    /\ worker.pc = "open"
    /\ IF openOk
       THEN cacheFile' = [exists |-> TRUE, data |-> <<>>] /\ worker' = [worker EXCEPT !.pc = "write"]
       ELSE cacheFile' = cacheFile /\ worker' = [pc |-> "clear", data |-> <<>>, err |-> TRUE]
    /\ UNCHANGED cacheModified
    /\ WorkerFrame

\* os.WriteFile writes the bytes, all of them or not
WorkerWrite(full) ==
    /\ worker.pc = "write"
    /\ cacheFile' = Written(worker.data, full)
    /\ worker' = [pc |-> "clear", data |-> <<>>, err |-> ~full]
    /\ UNCHANGED cacheModified
    /\ WorkerFrame

\* a plausible slip: after a failed save the flag is left set, for a retry
WorkerClearRetrying ==
    /\ worker.pc = "clear"
    /\ cacheModified' = IF worker.err THEN cacheModified ELSE 0
    /\ worker' = [Asleep EXCEPT !.err = worker.err]
    /\ UNCHANGED cacheFile
    /\ WorkerFrame

\* cachePersistenceWorker: the error of saveCacheToDisk, if any, is logged, and
\* the flag is reset whatever it returned
WorkerClear ==
    /\ worker.pc = "clear"
    /\ cacheModified' = 0
    /\ worker' = [Asleep EXCEPT !.err = worker.err]
    /\ UNCHANGED cacheFile
    /\ WorkerFrame

\* cachePersistenceWorker, a goroutine beside the request handlers
cachePersistenceWorker ==
    \/ \E gzipOk \in BOOLEAN : WorkerSnapshot(gzipOk)
    \/ \E openOk \in BOOLEAN : WorkerOpen(openOk)
    \/ \E full \in BOOLEAN : WorkerWrite(full)
    \/ WorkerClear

\* the process ends and main runs again with the same environment and files
Restart ==
    LET loaded == IF cacheSettings.Enabled THEN loadCacheFromDisk(cacheFile)
                  ELSE [responseCache |-> <<>>, cacheHits |-> 0, cacheMisses |-> 0]
    IN  /\ served > 0
        /\ responseCache' = loaded.responseCache
        /\ cacheHits' = loaded.cacheHits
        /\ cacheMisses' = loaded.cacheMisses
        /\ cacheModified' = 0
        /\ requestCount' = ZeroCounters(config)
        /\ triggerCount' = ZeroCounters(config)
        /\ resp' = NoResponse
        /\ worker' = Asleep
        /\ UNCHANGED <<config, logSettings, cacheSettings, cacheFile, now, served>>
        /\ UNCHANGED engineVars

Next ==
    \/ \E r \in Requests, env \in Envs : Handle(r, env)
    \/ Tick
    \/ cachePersistenceWorker
    \/ Restart

Spec == Init /\ [][Next]_vars

\* The server with caching enabled on a machine where compression and file
\* writes succeed; the worker's ticker keeps firing.
InitPersist == \E deployment \in {d \in Deployments : d.cache.Enabled} : Start(deployment)

WorkerSucceeds ==
    \/ WorkerSnapshot(TRUE)
    \/ WorkerOpen(TRUE)
    \/ WorkerWrite(TRUE)
    \/ WorkerClear

NextPersist ==
    \/ \E r \in Requests, env \in Envs : Handle(r, env)
    \/ Tick
    \/ WorkerSucceeds
    \/ Restart

SpecPersist == InitPersist /\ [][NextPersist]_vars /\ WF_vars(WorkerSucceeds)

\* a plausible slip: CONNECT is forwarded like any other method
handleProxyModeForwardingConnect(st, r, env) ==
    proxyRequest(st, r,
                 [Scheme |-> IF r.URLScheme # "" THEN r.URLScheme ELSE "http",
                  Host |-> r.Host, Path |-> <<>>],
                 env)

\* handleProxyMode: the request names its own origin.  URLScheme and URLHost
\* are r.URL.Scheme and r.URL.Host, Host is r.Host, RequestURI the request
\* target as it was sent.  url.Parse of the scheme and host succeeds.
handleProxyMode(st, r, env) ==
    IF HasPrefix(r.Path, <<"/", "_proxy">>)
    THEN [st |-> st, out |-> Outcome("swallowed", 200, NoHeader, <<>>),
          override |-> 0, afterSelection |-> st]
    ELSE IF r.Method = "CONNECT"
    THEN [st |-> st, out |-> [httpError(NoHeader, "connect", 405) EXCEPT !.err = "connect"],
          override |-> 0, afterSelection |-> st]
    ELSE IF r.URLScheme # "" /\ r.URLHost # ""
    THEN proxyRequest(st, r, [Scheme |-> r.URLScheme, Host |-> r.URLHost, Path |-> <<>>],
                      env)
    ELSE IF r.Host # "" /\ r.URLScheme = ""
    THEN proxyRequest(st, r,
                      [Scheme |-> IF HasPrefix(r.RequestURI, <<"https://">>)
                                  THEN "https" ELSE "http",
                       Host |-> r.Host, Path |-> <<>>],
                      env)
    ELSE [st |-> st, out |-> [httpError(NoHeader, "url", 400) EXCEPT !.err = "url"],
          override |-> 0, afterSelection |-> st]

\* the requests sent to the server in HTTP-proxy mode: a CONNECT, requests in
\* absolute form, one in origin form with a Host header, and one without any
\* host
ProxyModeRequests ==
    {[Method |-> "CONNECT", Path |-> <<>>, RawQuery |-> <<>>, Header |-> NoHeader,
      Body |-> <<>>, URLScheme |-> "", URLHost |-> "example.com:443",
      Host |-> "example.com:443", RequestURI |-> <<"example.com:443">>],
     [Method |-> "GET", Path |-> PathA, RawQuery |-> <<>>, Header |-> NoHeader,
      Body |-> <<>>, URLScheme |-> "http", URLHost |-> "origin", Host |-> "origin",
      RequestURI |-> <<"http://", "origin">> \o PathA],
     [Method |-> "POST", Path |-> PathA, RawQuery |-> <<>>, Header |-> NoHeader,
      Body |-> <<"{", "}">>, URLScheme |-> "http", URLHost |-> "origin",
      Host |-> "origin", RequestURI |-> <<"http://", "origin">> \o PathA],
     [Method |-> "GET", Path |-> PathA, RawQuery |-> <<>>, Header |-> NoHeader,
      Body |-> <<>>, URLScheme |-> "", URLHost |-> "", Host |-> "origin",
      RequestURI |-> PathA],
     [Method |-> "GET", Path |-> PathA, RawQuery |-> <<>>, Header |-> NoHeader,
      Body |-> <<>>, URLScheme |-> "", URLHost |-> "", Host |-> "",
      RequestURI |-> PathA]}
    \cup {[Method |-> m, Path |-> <<"/", "u", "/">> \o id, RawQuery |-> <<>>,
           Header |-> NoHeader, Body |-> <<>>, URLScheme |-> "http",
           URLHost |-> "origin", Host |-> "origin",
           RequestURI |-> <<"http://", "origin", "/", "u", "/">> \o id] :
             m \in {"GET", "POST"}, id \in {<<"4", "2">>, <<"a", "b">>, <<"7">>}}

\* the environments of the requests in HTTP-proxy mode; among the origin's
\* answers a body with a parenthesis, and one declared gzip whose stream is cut
EnvsProxyMode ==
    {Fine(OriginPlain), Fine(OriginGzip),
     Fine([OriginPlain EXCEPT !.Body = <<"(">> \o Hello,
                              !.Header = HeaderSet(@, "Content-Length", "6")]),
     Fine([OriginGzip EXCEPT !.Body = <<"gz:origin">> \o Hello,
                             !.Header = HeaderSet(@, "Content-Length", "6")]),
     [Fine(OriginPlain) EXCEPT !.doErr = TRUE],
     [Fine(OriginPlain) EXCEPT !.fileOk = FALSE],
     [Fine(OriginGzip) EXCEPT !.gzipOk = FALSE]}

\* The deployment in HTTP-proxy mode: no streaming, no cache; a mock read from
\* a file that fires on every POST, a rewrite-only rule whose first
\* replacement is a regular expression that does not compile, a mock for the
\* GET requests to /u/ and digits (a regular expression), a disabled rule
\* that would match every request, and a second rewrite-only rule, which
\* fires on the first GET /u/ab, when the first is still below its
\* trigger_after, and a mock read from a file that may fire once (max_triggers
\* 1), on POST /u/7
ProxyModeDeployment ==
    [streaming |-> FALSE, cache |-> NoCache,
     overrides |-> <<[Rule("page", "POST", PathA, FALSE, <<>>, NoReplacements, 0, 0, 0)
                          EXCEPT !.BodyFile = "p.html"],
                     Rule("fix", "GET", PathA, FALSE, <<>>,
                          <<[Find |-> <<"(">>, Replace |-> <<"[">>, IsRegex |-> TRUE],
                            Literal(Hello, <<"h", "i">>)>>, 1, 0, 0),
                     Rule("user", "Get", <<"/", "u", "/", "\\d", "+">>, TRUE, <<"U">>,
                          NoReplacements, 0, 0, 0),
                     [Rule("off", "*", <<"/">>, FALSE, <<"O">>, NoReplacements, 0, 0, 0)
                          EXCEPT !.Enabled = FALSE],
                     Rule("late", "GET", <<"/", "u", "/", "a">>, FALSE, <<>>,
                          <<Literal(Hello, <<>>)>>, 0, 0, 0),
                     [Rule("once", "POST", <<"/", "u", "/", "7">>, FALSE, <<>>,
                           NoReplacements, 0, 1, 0)
                          EXCEPT !.BodyFile = "p.html"]>>]

\* one request in HTTP-proxy mode, through the handler main installs when
\* PROXY_TARGET is not set
NextProxyMode ==
    \E r \in ProxyModeRequests \cup {GetStats}, env \in EnvsProxyMode :
        /\ served < MaxProxyModeRequests
        /\ Served(r, env, IF r.Path = StatsPath
                          THEN [st |-> Globals, out |-> showStats(Globals),
                                override |-> 0, afterSelection |-> Globals]
                          ELSE handleProxyMode(Globals, r, env))

SpecProxyMode == Start(ProxyModeDeployment) /\ [][NextProxyMode]_vars

\* The largest number of requests of the deployment that only caches.
MaxStoreRequests == 3

\* A deployment that only caches: CACHE_TTL set, CACHE_URL_PATTERNS=*/a,*?q,
\* no streaming, and a rules file with one disabled rule.
StoreDeployment ==
    [streaming |-> FALSE,
     cache |-> [Enabled |-> TRUE, TTL |-> 1, KeyHeaders |-> <<>>,
                URLPatterns |-> <<<<"*", "/", "a">>, <<"*", "?", "q">>>>],
     overrides |-> <<[Rule("off", "*", <<"/">>, FALSE, <<"O">>, NoReplacements, 0, 0, 0)
                         EXCEPT !.Enabled = FALSE]>>]

\* one request to the caching deployment, or the passing of time: GET and POST
\* requests to an eligible URL, the POST with either of two bodies, and a GET
\* to a URL no pattern matches; the origin answers 200 or 500, or the
\* exchange fails
NextStore ==
    \/ \E r \in {GetA, PostA, [PostA EXCEPT !.Body = <<"[", "]">>],
                  [GetA EXCEPT !.Path = <<"/", "b">>]},
          env \in {Fine(OriginPlain), Fine([OriginPlain EXCEPT !.StatusCode = 500]),
                   [Fine(OriginPlain) EXCEPT !.doErr = TRUE],
                   [Fine(OriginPlain) EXCEPT !.readErr = TRUE]} :
          served < MaxStoreRequests /\ Serve(r, env)
    \/ Tick

SpecStore == Start(StoreDeployment) /\ [][NextStore]_vars

\* The cache lookup of a handler that runs beside the others.  getCachedResponse
\* is three operations on shared memory: responseCache.Load with the expiry
\* test, responseCache.Delete, and (back in bufferedProxyRequest, after the
\* upstream request) cacheResponse's Store.  pc[p] is the goroutine's position,
\* args[p] its request and environment, ret[p] the rule it selected.

\* proxyRequest up to getCachedResponse's Load, which finds an expired entry
LookupLoad(p, r, env) ==
    LET sel == findMatchingOverride(requestCount, triggerCount, r.Method, FullURL(r))
        key == generateCacheKey(r.Method, Join(ProxyURL(r, targetURL)), r.Header)
    IN  /\ pc[p] = "idle"
        /\ served + Cardinality({q \in Procs : pc[q] # "idle"}) < MaxLookupRequests
        /\ ~HasPrefix(r.Path, <<"/", "_proxy">>)
        /\ Route(sel.override) = "buffered"
        /\ cacheSettings.Enabled
        /\ key \in DOMAIN responseCache
        /\ ~(now < responseCache[key].ExpiresAt)
        /\ requestCount' = sel.requestCount
        /\ triggerCount' = sel.triggerCount
        /\ pc' = [pc EXCEPT ![p] = "delete"]
        /\ args' = [args EXCEPT ![p] = <<r, env>>]
        /\ ret' = [ret EXCEPT ![p] = sel.override]
        /\ UNCHANGED <<config, mutex, idx, stat, trail, started, proxyVars>>

\* getCachedResponse: responseCache.Delete(key)
LookupDelete(p) ==
    /\ pc[p] = "delete"
    /\ responseCache' =
           [k \in DOMAIN responseCache
                   \ {generateCacheKey(args[p][1].Method,
                                       Join(ProxyURL(args[p][1], targetURL)),
                                       args[p][1].Header)} |-> responseCache[k]]
    /\ pc' = [pc EXCEPT ![p] = "miss"]
    /\ UNCHANGED <<counterVars, mutex, idx, args, ret, stat, trail, started,
                   logSettings, cacheSettings, cacheHits, cacheMisses, cacheModified,
                   cacheFile, worker, now, resp, served>>

\* bufferedProxyRequest after getCachedResponse has returned nil
LookupMissed(p, r, env, done) ==
    /\ pc[p] = "miss"
    /\ responseCache' = done.st.responseCache
    /\ cacheHits' = done.st.cacheHits
    /\ cacheMisses' = done.st.cacheMisses
    /\ cacheModified' = done.st.cacheModified
    /\ resp' = Response(Globals, r, env, done)
    /\ served' = served + 1
    /\ pc' = [pc EXCEPT ![p] = "idle"]
    /\ args' = [args EXCEPT ![p] = <<"", <<>>>>]
    /\ ret' = [ret EXCEPT ![p] = 0]
    /\ UNCHANGED <<counterVars, mutex, idx, stat, trail, started, logSettings,
                   cacheSettings, cacheFile, worker, now>>

NextLookup ==
    \/ \E r \in {GetA, PostA}, env \in {Fine(OriginPlain), [Fine(OriginPlain) EXCEPT !.doErr = TRUE]} :
          \/ /\ served + Cardinality({q \in Procs : pc[q] # "idle"}) < MaxLookupRequests
             /\ Serve(r, env)
          \/ \E p \in Procs : LookupLoad(p, r, env)
    \/ \E p \in Procs : LookupDelete(p)
    \/ \E p \in Procs :
          LookupMissed(p, args[p][1], args[p][2],
                       Dispatched(Globals, ret[p],
                                  BufferedMiss([Globals EXCEPT !.cacheMisses = @ + 1],
                                               args[p][1],
                                               ProxyURL(args[p][1], targetURL),
                                               args[p][2],
                                               generateCacheKey(args[p][1].Method,
                                                   Join(ProxyURL(args[p][1], targetURL)),
                                                   args[p][1].Header))))
    \/ Tick

SpecLookup == InitPersist /\ [][NextLookup]_vars

\* The body of a streamed response, one pass of the copy loop at a time.  Each
\* Read of the upstream body returns one piece of it.  pc[p] says which loop
\* the handler is in, args[p] is the origin's response and whether the client
\* is still connected, idx[p] counts the pieces read, ret[p] is
\* bytesWritten, and stat[p] is the log of the handler's calls on the client's
\* response writer and on the upstream body, in program order.

\* streamingProxyRequest up to the choice of the copy loop
StreamBegin(p, r, origin) ==
    /\ pc[p] = "idle"
    /\ logSettings.EnableStreaming
    /\ started < MaxStreams
    /\ started' = started + 1
    /\ pc' = [pc EXCEPT ![p] = IF IsEventStream(HeaderGet(origin.Header, "Content-Type"))
                               THEN "streamWithFlush" ELSE "io.Copy"]
    /\ args' = [args EXCEPT ![p] = <<origin, TRUE>>]
    /\ idx' = [idx EXCEPT ![p] = 0]
    /\ ret' = [ret EXCEPT ![p] = 0]
    /\ stat' = [stat EXCEPT ![p] =
                   <<[op |-> "WriteHeader",
                      head |-> streamingProxyRequest(Globals, r, ProxyURL(r, targetURL),
                                                     Fine(origin)).out]>>]
    /\ UNCHANGED <<counterVars, mutex, trail, proxyVars>>

\* the client closes its connection while its response is being streamed
ClientDisconnects(p) ==
    /\ pc[p] \in {"streamWithFlush", "io.Copy"}
    /\ args[p][2]
    /\ args' = [args EXCEPT ![p][2] = FALSE]
    /\ UNCHANGED <<counterVars, mutex, pc, idx, ret, stat, trail, started, proxyVars>>

\* a plausible slip: the loop writes and leaves the flushing to the server
streamWithoutFlush(p) ==
    /\ pc[p] = "streamWithFlush"
    /\ IF idx[p] < Len(args[p][1].Body)
       THEN /\ idx' = [idx EXCEPT ![p] = @ + 1]
            /\ stat' = [stat EXCEPT ![p] =
                           @ \o <<[op |-> "Read", data |-> args[p][1].Body[idx[p] + 1]],
                                  [op |-> "Write", data |-> args[p][1].Body[idx[p] + 1],
                                   ok |-> args[p][2]]>>]
            /\ ret' = [ret EXCEPT ![p] = @ + 1]
            /\ UNCHANGED <<pc, served>>
       ELSE /\ pc' = [pc EXCEPT ![p] = "idle"]
            /\ served' = served + 1
            /\ UNCHANGED <<idx, stat, ret>>
    /\ UNCHANGED <<counterVars, mutex, args, trail, started, logSettings, cacheSettings,
                   responseCache, cacheHits, cacheMisses, cacheModified, cacheFile,
                   worker, now, resp>>

\* streamWithFlush, one pass of its loop: Read; if it returned bytes, Write
\* (whose result is dropped), written += n and Flush; on EOF, break
streamWithFlush(p) ==
    /\ pc[p] = "streamWithFlush"
    /\ IF idx[p] < Len(args[p][1].Body)
       THEN /\ idx' = [idx EXCEPT ![p] = @ + 1]
            /\ stat' = [stat EXCEPT ![p] =
                           @ \o <<[op |-> "Read", data |-> args[p][1].Body[idx[p] + 1]],
                                  [op |-> "Write", data |-> args[p][1].Body[idx[p] + 1],
                                   ok |-> args[p][2]],
                                  [op |-> "Flush"]>>]
            /\ ret' = [ret EXCEPT ![p] = @ + 1]
            /\ UNCHANGED <<pc, served>>
       ELSE /\ pc' = [pc EXCEPT ![p] = "idle"]
            /\ served' = served + 1
            /\ UNCHANGED <<idx, stat, ret>>
    /\ UNCHANGED <<counterVars, mutex, args, trail, started, logSettings, cacheSettings,
                   responseCache, cacheHits, cacheMisses, cacheModified, cacheFile,
                   worker, now, resp>>

\* io.Copy(w, resp.Body), one pass of its loop: Read; if it returned bytes,
\* Write, and a failed Write ends the copy; on EOF, return
Copy(p) ==
    /\ pc[p] = "io.Copy"
    /\ IF idx[p] < Len(args[p][1].Body)
       THEN /\ idx' = [idx EXCEPT ![p] = @ + 1]
            /\ stat' = [stat EXCEPT ![p] =
                           @ \o <<[op |-> "Read", data |-> args[p][1].Body[idx[p] + 1]],
                                  [op |-> "Write", data |-> args[p][1].Body[idx[p] + 1],
                                   ok |-> args[p][2]]>>]
            /\ IF args[p][2]
               THEN /\ ret' = [ret EXCEPT ![p] = @ + 1]
                    /\ UNCHANGED <<pc, served>>
               ELSE /\ pc' = [pc EXCEPT ![p] = "idle"]
                    /\ served' = served + 1
                    /\ ret' = ret
       ELSE /\ pc' = [pc EXCEPT ![p] = "idle"]
            /\ served' = served + 1
            /\ UNCHANGED <<idx, stat, ret>>
    /\ UNCHANGED <<counterVars, mutex, args, trail, started, logSettings, cacheSettings,
                   responseCache, cacheHits, cacheMisses, cacheModified, cacheFile,
                   worker, now, resp>>

NextStream ==
    \/ \E p \in Procs, origin \in {OriginPlain, OriginSSE} : StreamBegin(p, GetA, origin)
    \/ \E p \in Procs : ClientDisconnects(p)
    \/ \E p \in Procs : streamWithFlush(p)
    \/ \E p \in Procs : Copy(p)

SpecStream ==
    /\ \E deployment \in {d \in Deployments : d.streaming /\ ~d.cache.Enabled} :
          Start(deployment)
    /\ [][NextStream]_vars

NextCycle ==
    \E r \in ProxiedRequests, env \in Envs :
        served < MaxCycleRequests /\ Serve(r, env)

SpecCycle == Start(CycleDeployment) /\ [][NextCycle]_vars

----------------------------------------------------------------------------
(* The concurrent rule engine as a specification. *)

InitRules ==
    /\ config \in {loadConfig(c) : c \in EngineConfigs}
    /\ requestCount = ZeroCounters(config)
    /\ triggerCount = ZeroCounters(config)
    /\ mutex = ZeroCounters(config)
    /\ pc = [p \in Procs |-> "idle"]
    /\ idx = [p \in Procs |-> 0]
    /\ args = [p \in Procs |-> <<"", <<>>>>]
    /\ ret = [p \in Procs |-> 0]
    /\ stat = [p \in Procs |-> <<>>]
    /\ trail = [p \in Procs |-> NoTrail(config)]
    /\ started = 0
    /\ ProxyOff

NextRules ==
    \/ \E p \in Procs, call \in EngineCalls : FMOBegin(p, call[1], call[2])
    \/ \E p \in Procs : FMOLoop(p)
    \/ \E p \in Procs : FMOLock(p)
    \/ \E p \in Procs : FMOInc(p)
    \/ \E p \in Procs : FMODecide(p)
    \/ \E p \in Procs : FMOReturn(p)
    \/ \E p \in Procs : StatsBegin(p)
    \/ \E p \in Procs : StatsLoop(p)
    \/ \E p \in Procs : StatsLock(p)
    \/ \E p \in Procs : StatsReadRequestCount(p)
    \/ \E p \in Procs : StatsReadTriggerCount(p)
    \/ \E p \in Procs : StatsReturn(p)

SpecRules == InitRules /\ [][NextRules]_vars

----------------------------------------------------------------------------
(* Properties of the rule engine, checked under SpecRules.                 *)

\* the rules after rule i that the call of goroutine p matches
LaterMatching(p, i) ==
    {j \in DOMAIN config : j > i /\ RuleMatches(config[j], args[p][1], args[p][2])}

\* the call of p went on after rule i: it returned a later rule, or returned
\* nil after putting every later matching rule through its critical section
WentOnAfter(p, i) ==
    \/ ret[p] > i
    \/ ret[p] = 0 /\ \A j \in LaterMatching(p, i) : trail[p][j].incs = 1

\* C1: under any interleaving of findMatchingOverride calls and stats reads,
\* every rule with max_triggers > 0 has trigger_count <= max_triggers.
C1_TriggerCountBounded ==
    \A i \in DOMAIN config :
        config[i].MaxTriggers > 0 => triggerCount[i] <= config[i].MaxTriggers

\* C1 witness: a rule has used up its max_triggers and a later call that
\* matched it past trigger_after was suppressed.
C1_Witness ==
    \E i \in DOMAIN config, p \in Procs :
        /\ config[i].MaxTriggers > 0
        /\ triggerCount[i] = config[i].MaxTriggers
        /\ requestCount[i] > config[i].TriggerAfter
        /\ trail[p][i].outcome = "suppressed"

\* C3 as stated: once a call matched a rule that did not fire (trigger_after
\* not passed, or max_triggers used up), it touches no later rule.
C3_SuppressedStopsSelection ==
    \A p \in Procs, i \in DOMAIN config :
        trail[p][i].outcome = "suppressed" =>
            /\ ret[p] <= i
            /\ \A j \in DOMAIN config : j > i => trail[p][j] = NoTrail(config)[j]

\* C3 amended: a matched rule that does not fire keeps its trigger_count out
\* of the call's hands and the selection goes on with the next rule in
\* declaration order: the call returns a later rule, or nil after every later
\* matching rule was counted.
C3_SuppressedFallsThrough ==
    \A p \in Procs, i \in DOMAIN config :
        (pc[p] = "done" /\ trail[p][i].outcome = "suppressed") =>
            /\ trail[p][i].trigs = 0
            /\ WentOnAfter(p, i)

\* C3 witness: a call was suppressed on one rule and fired a later one.
C3_Witness ==
    \E p \in Procs, i \in DOMAIN config :
        pc[p] = "done" /\ trail[p][i].outcome = "suppressed" /\ ret[p] > i

\* C4: the step that decides a match whose incremented request_count has
\* reached reset_after > 0 sets both counters of the rule to 0, does not
\* return the rule, and goes on with the next rule in declaration order.
C4_ResetContinues ==
    [][\A p \in Procs :
          (/\ pc[p] = "decide"
           /\ pc'[p] # "decide"
           /\ config[idx[p]].ResetAfter > 0
           /\ requestCount[idx[p]] >= config[idx[p]].ResetAfter)
          => (/\ requestCount'[idx[p]] = 0
              /\ triggerCount'[idx[p]] = 0
              /\ pc'[p] = "loop"
              /\ idx'[p] = idx[p] + 1
              /\ ret'[p] = 0)]_ruleVars

\* C4 witness: a call reset one rule and then fired a later rule.
C4_Witness ==
    \E p \in Procs, i \in DOMAIN config :
        /\ pc[p] = "done"
        /\ trail[p][i].outcome = "reset"
        /\ trail[p][i].trigs = 0
        /\ ret[p] > i

----------------------------------------------------------------------------
(* Properties of the cyclic scenario, checked under SpecCycle.             *)

\* the place of the last request in its block of ten
PlaceInCycle == ((served - 1) % 10) + 1

\* C2: with the single rule trigger_after 3, max_triggers 2, reset_after 10
\* that matches every request, the n-th request is mocked exactly when it is
\* the 4th or the 5th of its block of ten; every other request goes to the
\* forwarding path; the 10th of a block leaves both counters at 0, and the
\* counters of the other places are those of the first block.
C2_CyclicScenario ==
    served > 0 =>
        /\ (resp.mode = "mock") <=> (PlaceInCycle \in {4, 5})
        /\ resp.mode = "mock" =>
               resp.Body = <<"M", "O", "C", "K">> /\ ~resp.upstream.sent
        /\ resp.mode # "mock" =>
               resp.mode = "buffered" /\ (resp.err # "body" => resp.upstream.sent)
        /\ requestCount[1] = PlaceInCycle % 10
        /\ triggerCount[1] = (IF PlaceInCycle \in {1, 2, 3, 10} THEN 0
                              ELSE IF PlaceInCycle = 4 THEN 1 ELSE 2)

\* the second mock of the second block
C2_Witness ==
    served = 15 /\ resp.mode = "mock" /\ requestCount[1] = 5 /\ triggerCount[1] = 2

----------------------------------------------------------------------------
(* Properties of the dispatcher, checked under Spec.                       *)

\* the last request was handled by proxyRequest and was no internal endpoint
Proxied == resp.nth > 0 /\ ~HasPrefix(resp.request.Path, <<"/", "_proxy">>)

\* C5: a proxied request runs the stateful selection once, and nothing after
\* it (the rewrite-only selection included) touches a counter: the counters
\* the request leaves are those of one run of findMatchingOverride on the
\* counters it found, so no rule's request_count or trigger_count advances
\* by more than 1.
C5_CountersAdvanceOnce ==
    Proxied =>
        LET once == findMatchingOverride(resp.before.requestCount,
                                         resp.before.triggerCount,
                                         resp.request.Method, FullURL(resp.request))
        IN  /\ requestCount = once.requestCount
            /\ triggerCount = once.triggerCount
            /\ resp.selected.requestCount = requestCount
            /\ resp.selected.triggerCount = triggerCount
            /\ \A i \in DOMAIN config :
                  /\ requestCount[i] <= resp.before.requestCount[i] + 1
                  /\ triggerCount[i] <= resp.before.triggerCount[i] + 1

\* both selections found the same rule, and it fired
C5_Witness ==
    /\ resp.mode = "buffered"
    /\ resp.override # 0
    /\ resp.rewrite = resp.override
    /\ requestCount[resp.override] = resp.before.requestCount[resp.override] + 1
    /\ triggerCount[resp.override] = resp.before.triggerCount[resp.override] + 1

\* the entries of the snapshot in the cache file, none if it cannot be read
FileEntries == gobDecode(decompressGzip(cacheFile.data).data).snapshot.Entries

\* C6: a response served as a hit comes from an entry with now < ExpiresAt
\* and ExpiresAt = CachedAt + TTL; and an entry enters the cache either by a
\* store at the present time with ExpiresAt = now + TTL, or from the cache
\* file, unexpired and exactly as the file has it; an entry that stays is
\* never changed.
C6_HitsAreFresh ==
    /\ [](resp.mode = "hit" =>
             /\ resp.at < resp.entry.ExpiresAt
             /\ resp.entry.ExpiresAt = resp.entry.CachedAt + cacheSettings.TTL)
    /\ [][\A k \in DOMAIN responseCache' :
             \/ k \in DOMAIN responseCache /\ responseCache'[k] = responseCache[k]
             \/ /\ served' = served + 1
                /\ responseCache'[k].CachedAt = now
                /\ responseCache'[k].ExpiresAt = now + cacheSettings.TTL
             \/ /\ resp' = NoResponse
                /\ k \in DOMAIN FileEntries
                /\ responseCache'[k] = FileEntries[k]
                /\ now < responseCache'[k].ExpiresAt]_vars

\* the first request of a restarted process is a hit on a rehydrated entry
C6_Witness ==
    /\ resp.mode = "hit"
    /\ resp.nth = 1
    /\ resp.key \in DOMAIN FileEntries
    /\ resp.entry = FileEntries[resp.key]
    /\ resp.at < resp.entry.ExpiresAt

\* C7: on the mock path, the buffered path and the cache-hit path, the
\* Content-Length sent to the client is the number of body bytes written.
C7_ContentLengthMatchesBody ==
    (resp.mode \in {"mock", "buffered", "hit"} /\ "Content-Length" \in DOMAIN resp.Header)
        => resp.Header["Content-Length"] = <<Itoa(Len(resp.Body))>>

\* the response headers of the paths that forward or replay the origin
ForwardedModes == {"buffered", "stream", "hit"}

\* C8 as stated: no hop-by-hop header on a request sent upstream nor on a
\* response sent by the buffered, streaming or cache-hit path.
C8_NoHopByHopAnywhere ==
    /\ resp.upstream.sent => DOMAIN resp.upstream.Header \cap HopByHop = {}
    /\ resp.mode \in ForwardedModes => DOMAIN resp.Header \cap HopByHop = {}

\* C8, amended: no hop-by-hop header on a request sent upstream; on a response
\* of the buffered, streaming or cache-hit path none of Proxy-Connection,
\* Proxy-Authenticate, Proxy-Authorization, Te, Trailer, Upgrade; Connection
\* only on the streamed response to an event stream, with the one value
\* keep-alive, which the proxy sets itself.
C8_HopByHopOnlySSEKeepAlive ==
    /\ resp.upstream.sent => DOMAIN resp.upstream.Header \cap HopByHop = {}
    /\ resp.mode \in ForwardedModes =>
          /\ DOMAIN resp.Header \cap (HopByHop \ {"Connection"}) = {}
          /\ "Connection" \in DOMAIN resp.Header =>
                /\ resp.mode = "stream"
                /\ IsEventStream(HeaderGet(resp.received, "Content-Type"))
                /\ resp.Header["Connection"] = <<"keep-alive">>

\* an event stream is streamed: both the request and the origin's response
\* carried every hop-by-hop header
C8_Witness ==
    /\ resp.mode = "stream"
    /\ resp.upstream.sent
    /\ HopByHop \subseteq DOMAIN resp.request.Header
    /\ HopByHop \subseteq DOMAIN resp.received
    /\ "Accept" \in DOMAIN resp.upstream.Header
    /\ HeaderGet(resp.Header, "Connection") = "keep-alive"

\* C9: a request that proxyRequest handles and no mock answers is streamed
\* exactly when streaming is enabled and caching is disabled, and is never
\* streamed when caching is enabled; every such request ends in exactly one
\* of mock, cache hit, buffered forward and streaming forward, and only the
\* two forwards contact the origin.
C9_OneModePerRequest ==
    Proxied =>
        /\ resp.mode \in {"mock", "hit", "buffered", "stream"}
        /\ resp.mode # "mock" =>
              ((resp.mode = "stream")
                  <=> (logSettings.EnableStreaming /\ ~cacheSettings.Enabled))
        /\ cacheSettings.Enabled => resp.mode # "stream"
        /\ resp.mode = "hit" => cacheSettings.Enabled
        /\ resp.upstream.sent => resp.mode \in {"buffered", "stream"}
        /\ ("X-Cache" \in DOMAIN resp.Header) <=> (resp.mode = "hit")
        /\ resp.mode = "stream" => ~resp.stored /\ resp.key = ""

\* streaming and caching are both enabled, and the request is forwarded buffered
C9_Witness ==
    /\ logSettings.EnableStreaming
    /\ cacheSettings.Enabled
    /\ resp.mode = "buffered"
    /\ resp.upstream.sent
    /\ resp.stored

\* the two requests agree on what the cache key is made of
SameCacheIdentity(r1, r2) ==
    /\ r1.Method = r2.Method
    /\ ProxyURL(r1, targetURL) = ProxyURL(r2, targetURL)
    /\ HeaderGet(r1.Header, "Authorization") = HeaderGet(r2.Header, "Authorization")
    /\ HeaderGet(r1.Header, "Content-Type") = HeaderGet(r2.Header, "Content-Type")
    /\ \A n \in DOMAIN cacheSettings.KeyHeaders :
          HeaderGet(r1.Header, cacheSettings.KeyHeaders[n])
              = HeaderGet(r2.Header, cacheSettings.KeyHeaders[n])

\* C10: with caching enabled, when a request that no mock answers follows,
\* before the expiry of the entry, a request of the same method, upstream
\* URL and contributing headers that stored that entry or was served from
\* it, the second request is a hit: same body, nothing sent upstream, hits
\* one more, misses unchanged, X-Cache: HIT.
C10_SecondRequestHits ==
    [][(/\ served' = served + 1
        /\ cacheSettings.Enabled
        /\ resp.err = ""
        /\ resp.mode = "hit" \/ (resp.mode = "buffered" /\ resp.stored)
        /\ resp'.mode \notin {"mock", "stats", "swallowed"}
        /\ SameCacheIdentity(resp.request, resp'.request)
        /\ now < resp.entry.ExpiresAt)
       => (/\ resp'.mode = "hit"
           /\ resp'.Body = resp.Body
           /\ ~resp'.upstream.sent
           /\ cacheHits' = cacheHits + 1
           /\ cacheMisses' = cacheMisses
           /\ HeaderGet(resp'.Header, "X-Cache") = "HIT")]_vars

\* the second request of a process is a hit after a miss, and no rule fired
\* on either
C10_Witness ==
    /\ resp.mode = "hit"
    /\ resp.nth = 2
    /\ resp.override = 0
    /\ resp.hitsBefore = 0 /\ resp.missesBefore = 1
    /\ cacheHits = 1 /\ cacheMisses = 1
    /\ requestCount[1] = 2 /\ triggerCount[1] = 0
    /\ HeaderGet(resp.Header, "X-Cache") = "HIT"

----------------------------------------------------------------------------
(* URL gating of the cache.                                                *)

\* the last request was proxied while URL patterns were configured and its
\* upstream URL matched none of them
Ineligible ==
    /\ Proxied
    /\ cacheSettings.Enabled
    /\ Len(cacheSettings.URLPatterns) > 0
    /\ ~shouldCacheURL(ProxyURL(resp.request, targetURL))

\* C11: with URL patterns configured, a request whose upstream URL matches none
\* of them is never served from the cache and its response is never stored; it
\* is always forwarded to the origin (unless a mock rule answers it or its own
\* body cannot be read).
C11_IneligibleAlwaysForwarded ==
    (Ineligible /\ resp.mode # "mock")
        => /\ resp.mode = "buffered"
           /\ ~resp.stored
           /\ (resp.err # "body" => resp.upstream.sent)

\* C12: for such a request no cache lookup is made, no entry is removed or
\* stored, and neither the hit counter nor the miss counter changes.
C12_IneligibleLeavesCacheAlone ==
    [][(served' = served + 1 /\ Ineligible')
           => UNCHANGED <<responseCache, cacheHits, cacheMisses, cacheModified>>]_vars

----------------------------------------------------------------------------
(* Persistence of the cache.                                               *)

\* the entries of the cache that have not expired
Live(cache) == [k \in {c \in DOMAIN cache : now < cache[c].ExpiresAt} |-> cache[k]]

\* C13: while the worker's writes succeed, a store that happens during a
\* snapshot is not lost: the modified flag is never left cleared, with the
\* worker back asleep, while an unexpired entry of the cache is missing from
\* the file.
C13_NoStoreLost ==
    (cacheSettings.Enabled /\ cacheModified = 0 /\ worker.pc = "sleep")
        => \A k \in DOMAIN Live(responseCache) :
               k \in DOMAIN FileEntries /\ FileEntries[k] = responseCache[k]

\* the bytes are a complete snapshot: they decompress and decode
CompleteSnapshot(data) ==
    /\ ~decompressGzip(data).err
    /\ ~gobDecode(decompressGzip(data).data).err

\* C14: the snapshot file is replaced atomically: at every instant, whatever
\* the worker is doing, the file is absent or holds a complete snapshot, never
\* a truncated or partial one.
C14_FileAbsentOrComplete == cacheFile.exists => CompleteSnapshot(cacheFile.data)

\* the cache a fresh process loads from what saveCacheToDisk writes now
SavedNow == saveCacheToDisk(responseCache, cacheHits, cacheMisses, cacheFile, "").file

\* C15: saving the cache and loading the file, with no store, expiry or
\* removal in between, yields exactly the entries that were live at the save,
\* each with its status, headers, body, cached-at and expires-at; and the
\* snapshot written holds only entries unexpired at the time of the save.
C15_SaveLoadRoundTrip ==
    /\ loadCacheFromDisk(SavedNow).responseCache = Live(responseCache)
    /\ SavedNow.exists
           => gobDecode(decompressGzip(SavedNow.data).data).snapshot.Entries
                  = Live(responseCache)

\* the cache holds an expired entry beside a live one with headers and a body
C15_Witness ==
    \E k1, k2 \in DOMAIN responseCache :
        /\ responseCache[k1].ExpiresAt <= now
        /\ now < responseCache[k2].ExpiresAt
        /\ responseCache[k2].Body # <<>>
        /\ DOMAIN responseCache[k2].Headers # {}

----------------------------------------------------------------------------
(* Transfer-Encoding across the hop.                                       *)

----------------------------------------------------------------------------
(* Mock rules and rewrite-only rules.                                      *)

\* the last request was answered by a rule's own body, which could be read
Mocked == resp.mode = "mock" /\ resp.err = ""

\* the body a rule carries, with the rule's replacements applied
RuleBody(o) ==
    applyBodyReplacements(IF o.BodyFile # "" THEN ReadFile(o.BodyFile) ELSE o.BodyText,
                          o.BodyReplacements)

\* C17: when a rule with a body (file or text) fires, the client receives the
\* rule's status code and the rule's body with the rule's replacements
\* applied, the origin is not contacted, and the cache is neither read nor
\* written (entries, hit and miss counters, modified flag unchanged), even if
\* a fresh entry for the request exists.
C17_MockBypassesOriginAndCache ==
    /\ [](Mocked => /\ resp.override # 0
                    /\ resp.StatusCode = config[resp.override].StatusCode
                    /\ resp.Body = RuleBody(config[resp.override])
                    /\ ~resp.upstream.sent)
    /\ [][(served' = served + 1 /\ resp'.mode = "mock")
              => UNCHANGED <<responseCache, cacheHits, cacheMisses, cacheModified>>]_vars

\* a mock with a replacement that changes its body answered a request for
\* which the cache holds a fresh entry
C17_Witness ==
    /\ Mocked
    /\ resp.Body # ReadFile(config[resp.override].BodyFile)
    /\ \E k \in DOMAIN responseCache :
           /\ k = generateCacheKey(resp.request.Method,
                                   Join(ProxyURL(resp.request, targetURL)),
                                   resp.request.Header)
           /\ now < responseCache[k].ExpiresAt

\* the rule the rewrite-only lookup finds for the last request (0 = none)
RewriteRule ==
    findMatchingOverrideForReplacements(resp.before.requestCount, resp.before.triggerCount,
                                        resp.request.Method, FullURL(resp.request)).override

\* the last request matched an enabled rule that carries replacements and no
\* body, and was forwarded by the given mode, whose response came back whole
RewriteOnly(mode) ==
    /\ Proxied
    /\ resp.mode = mode
    /\ resp.upstream.sent
    /\ resp.err = ""
    /\ RewriteRule # 0
    /\ config[RewriteRule].BodyFile = ""
    /\ config[RewriteRule].BodyText = <<>>

\* a body as its recipient decodes it
PlainBody(header, body) ==
    IF ToLower(HeaderGet(header, "Content-Encoding")) = "gzip"
    THEN decompressGzip(body).data ELSE body

\* the origin's body with the rule's replacements applied
RewrittenOrigin ==
    applyBodyReplacements(PlainBody(resp.received, resp.receivedBody),
                          config[RewriteRule].BodyReplacements)

C19_NoMatchIsByteIdentical ==
    (RewriteOnly("buffered")
        /\ RewrittenOrigin = PlainBody(resp.received, resp.receivedBody))
        => resp.Body = resp.receivedBody

----------------------------------------------------------------------------
(* The internal endpoints.                                                 *)

\* the path of a request begins with /_proxy
Internal(r) == HasPrefix(r.Path, <<"/", "_proxy">>)

\* C20: a request whose path begins with /_proxy and is not /_proxy_stats gets
\* no response body, sends nothing upstream, does not access the cache and
\* changes no rule counter; /_proxy_stats is answered by the stats handler
\* only, never reaches the dispatcher and changes no counter either.
C20_InternalPathsTouchNothing ==
    /\ []((resp.nth > 0 /\ Internal(resp.request))
             => /\ ~resp.upstream.sent
                /\ resp.override = 0
                /\ IF resp.request.Path = StatsPath
                   THEN resp.mode = "stats"
                   ELSE resp.mode = "swallowed" /\ resp.Body = <<>>)
    /\ [][(served' = served + 1 /\ Internal(resp'.request))
              => UNCHANGED <<requestCount, triggerCount, responseCache, cacheHits,
                             cacheMisses, cacheModified>>]_vars

\* an internal path other than the stats endpoint was requested of a server
\* that has counted a request and holds a cache entry
C20_Witness ==
    /\ resp.mode = "swallowed"
    /\ resp.request.Path # StatsPath
    /\ \E i \in DOMAIN requestCount : requestCount[i] > 0
    /\ DOMAIN responseCache # {}

----------------------------------------------------------------------------
(* Errors at the dispatcher boundary.                                      *)

\* C21: in HTTP-proxy mode a CONNECT request is answered with 405 Method Not
\* Allowed, nothing is sent upstream, and no rule counter and no cache state
\* changes.
C21_ConnectRejected ==
    /\ []((resp.nth > 0 /\ resp.request.Method = "CONNECT")
             => resp.StatusCode = 405 /\ ~resp.upstream.sent /\ resp.override = 0)
    /\ [][(served' = served + 1 /\ resp'.request.Method = "CONNECT")
              => UNCHANGED <<requestCount, triggerCount, responseCache, cacheHits,
                             cacheMisses, cacheModified>>]_vars

\* a CONNECT was rejected by a server whose rules have counted requests
C21_Witness ==
    /\ resp.request.Method = "CONNECT"
    /\ resp.StatusCode = 405
    /\ \E i \in DOMAIN requestCount : requestCount[i] > 0

\* C22: when the body_file of a fired rule cannot be read, the request is
\* answered with status 500 and with no body from the rule; the rule stays
\* enabled, and a later request that matches it is counted and evaluated as
\* usual: it fires the rule again while the rule's thresholds allow a firing,
\* with the file's content when the file can then be read, and is suppressed
\* when they do not; a rule with a body_file never answers without error and
\* without the file's content.
C22_UnreadableFileIsOneRequestsError ==
    /\ []((resp.mode = "mock" /\ resp.err = "file")
             => /\ resp.StatusCode = 500
                /\ resp.Body # ReadFile(config[resp.override].BodyFile)
                /\ config[resp.override].Enabled)
    /\ []((/\ resp.mode = "mock" /\ resp.err = ""
           /\ config[resp.override].BodyFile # ""
           /\ config[resp.override].BodyReplacements = <<>>)
             => resp.Body = ReadFile(config[resp.override].BodyFile))
    /\ [][(/\ resp.mode = "mock" /\ resp.err = "file"
           /\ served' = served + 1
           /\ RuleMatches(config[resp.override], resp'.request.Method,
                          FullURL(resp'.request)))
              => /\ requestCount'[resp.override] = requestCount[resp.override] + 1
                 /\ IF ShouldTrigger(config[resp.override],
                                     requestCount[resp.override] + 1,
                                     triggerCount[resp.override])
                    THEN /\ resp'.mode = "mock"
                         /\ resp'.override = resp.override
                         /\ triggerCount'[resp.override] = triggerCount[resp.override] + 1
                         /\ \/ resp'.err = "file" /\ resp'.StatusCode = 500
                            \/ /\ resp'.err = ""
                               /\ resp'.StatusCode = config[resp.override].StatusCode
                               /\ resp'.Body = ReadFile(config[resp.override].BodyFile)
                    ELSE /\ resp'.override # resp.override
                         /\ triggerCount'[resp.override] = triggerCount[resp.override]]_vars

\* a rule fired, its file could not be read, and the server goes on serving
C22_Witness ==
    /\ resp.mode = "mock" /\ resp.err = "file" /\ resp.StatusCode = 500
    /\ triggerCount[resp.override] > 0
    /\ served < MaxProxyModeRequests

----------------------------------------------------------------------------
(* Concurrency of the cache and of the rule counters.                      *)

\* C24: the removal of an expired entry on lookup is atomic with the expiry
\* check: no step removes from the cache an entry that is not expired, such as
\* a fresh one another request stored under the key in the meantime.
C24_OnlyExpiredEntriesAreRemoved ==
    [][\A k \in DOMAIN responseCache :
           k \notin DOMAIN responseCache' => ~(now < responseCache[k].ExpiresAt)]_vars

C26_CounterUpdatesLinearizable ==
    /\ [](/\ \A p, q \in Procs :
               (p # q /\ pc[p] \in {"inc", "decide"} /\ pc[q] \in {"inc", "decide"})
                  => idx[p] # idx[q]
          /\ \A p \in Procs :
               pc[p] \in {"lock", "inc", "decide"}
                  => RuleMatches(config[idx[p]], args[p][1], args[p][2])
          /\ \A i \in DOMAIN config :
               config[i].MaxTriggers > 0 => triggerCount[i] <= config[i].MaxTriggers)
    /\ [][/\ \A p \in Procs :
               /\ (pc[p] \in {"inc", "decide"} /\ pc'[p] = pc[p])
                    => /\ requestCount'[idx[p]] = requestCount[idx[p]]
                       /\ triggerCount'[idx[p]] = triggerCount[idx[p]]
               /\ (pc[p] = "inc" /\ pc'[p] = "decide")
                    => /\ requestCount'[idx[p]] = requestCount[idx[p]] + 1
                       /\ triggerCount'[idx[p]] = triggerCount[idx[p]]
               /\ (pc[p] = "decide" /\ pc'[p] # "decide")
                    => /\ requestCount'[idx[p]] =
                              Decide(config[idx[p]], requestCount[idx[p]],
                                     triggerCount[idx[p]]).requestCount
                       /\ triggerCount'[idx[p]] =
                              Decide(config[idx[p]], requestCount[idx[p]],
                                     triggerCount[idx[p]]).triggerCount
          /\ \A i \in DOMAIN config :
               (requestCount'[i] # requestCount[i] \/ triggerCount'[i] # triggerCount[i])
                  => \E p \in Procs :
                        /\ pc[p] \in {"inc", "decide"} /\ pc'[p] # pc[p]
                        /\ idx[p] = i /\ mutex[i] = p
                        /\ RuleMatches(config[i], args[p][1], args[p][2])]_vars

\* one call is deciding on a rule that has counted twice while another call
\* waits for the same rule's lock, and a third rule is matched by neither
C26_Witness ==
    \E p, q \in Procs :
        /\ p # q
        /\ pc[p] = "decide" /\ pc[q] = "lock" /\ idx[q] = idx[p]
        /\ requestCount[idx[p]] >= 2
        /\ \E j \in DOMAIN config :
              /\ ~RuleMatches(config[j], args[p][1], args[p][2])
              /\ ~RuleMatches(config[j], args[q][1], args[q][2])

\* C27: whenever the cache holds no unexpired entry, the persistence worker
\* eventually removes the cache file.
C27_FileEventuallyRemoved ==
    (DOMAIN Live(responseCache) = {}) ~> ~cacheFile.exists

\* C28: on the streaming path, once a write to the client has failed the
\* handler reads nothing more from the upstream response, in the plain copy
\* loop as in the read-write-flush loop of an event stream.
C28_NoReadAfterFailedWrite ==
    [][\A p \in Procs :
          (pc[p] \in {"streamWithFlush", "io.Copy"} /\ idx'[p] > idx[p])
             => \A k \in DOMAIN stat[p] : stat[p][k].op = "Write" => stat[p][k].ok]_vars

----------------------------------------------------------------------------
(* Body replacements on the buffered path.                                 *)

\* C29: a replacement marked is_regex whose pattern failed to compile is not
\* applied: the body delivered for an uncompressed origin response is the
\* origin's body with the rule's other replacements applied in order.
C29_UncompiledRegexIsSkipped ==
    (/\ resp.mode = "buffered" /\ resp.err = "" /\ resp.rewrite # 0
     /\ HeaderGet(resp.received, "Content-Encoding") = "")
        => resp.Body =
              applyBodyReplacements(
                  resp.receivedBody,
                  SelectSeq(config[resp.rewrite].BodyReplacements,
                            LAMBDA b : ~(b.IsRegex /\ ~b.compiledRegex.ok)))

\* C30: for a request the buffered path rewrites, answered by the origin with
\* Content-Encoding: gzip, the client receives the origin's status and
\*   - Content-Encoding: gzip, a gzip stream of the rewritten plaintext and the
\*     Content-Length of that stream, when the body decompresses and
\*     compresses back;
\*   - no Content-Encoding and the rewritten plaintext, when the compression
\*     back fails;
\*   - Content-Encoding: gzip and the raw bytes with the replacements applied,
\*     when the body does not decompress.
C30_GzipBodyRewritten ==
    [][\A r \in ProxyModeRequests, env \in EnvsProxyMode :
          (/\ served' = served + 1
           /\ resp' = Response(Globals, r, env, handleProxyMode(Globals, r, env))
           /\ resp'.mode = "buffered" /\ resp'.err = "" /\ resp'.rewrite # 0
           /\ ToLower(HeaderGet(env.origin.Header, "Content-Encoding")) = "gzip")
          => /\ resp'.StatusCode = env.origin.StatusCode
             /\ IF decompressGzip(env.origin.Body).err
                THEN /\ resp'.Body =
                           applyBodyReplacements(env.origin.Body,
                                                 config[resp'.rewrite].BodyReplacements)
                     /\ HeaderGet(resp'.Header, "Content-Encoding") = "gzip"
                ELSE IF env.gzipOk
                THEN /\ HeaderGet(resp'.Header, "Content-Encoding") = "gzip"
                     /\ decompressGzip(resp'.Body) =
                           [err |-> FALSE,
                            data |-> applyBodyReplacements(
                                        decompressGzip(env.origin.Body).data,
                                        config[resp'.rewrite].BodyReplacements)]
                     /\ HeaderGet(resp'.Header, "Content-Length") = Itoa(Len(resp'.Body))
                ELSE /\ "Content-Encoding" \notin DOMAIN resp'.Header
                     /\ resp'.Body =
                           applyBodyReplacements(decompressGzip(env.origin.Body).data,
                                                 config[resp'.rewrite].BodyReplacements)]_vars

\* a gzip body was decompressed, rewritten (hello became hi) and compressed back
C30_Witness ==
    /\ resp.mode = "buffered" /\ resp.rewrite # 0
    /\ resp.receivedBody = <<"gz:origin">> \o Hello \o <<"crc">>
    /\ HeaderGet(resp.Header, "Content-Encoding") = "gzip"
    /\ resp.Body = <<"gz:go", "h", "i", "crc">>
    /\ HeaderGet(resp.Header, "Content-Length") = "4"

----------------------------------------------------------------------------
(* Rule matching, seen from the dispatcher.                                *)

\* C31: a request changes a rule's counters, or fires the rule, only if the
\* rule is enabled, its method is * or the request's method up to case, and
\* its pattern (a substring, or a regular expression that compiled) matches
\* the path plus ?query.  With the rule for GET and /u/\d+: GET /u/42 is
\* mocked by it; POST /u/42 and GET /u/ab are forwarded and leave its
\* counters as they were.
C31_OnlyMatchingRequestsCount ==
    /\ [][served' = served + 1 =>
            \A i \in DOMAIN config :
               (\/ requestCount'[i] # requestCount[i]
                \/ triggerCount'[i] # triggerCount[i]
                \/ resp'.override = i)
                 => /\ config[i].Enabled
                    /\ \/ config[i].Method = "*"
                       \/ ToLower(config[i].Method) = ToLower(resp'.request.Method)
                    /\ IF config[i].IsRegex
                       THEN /\ config[i].compiledRegex.ok
                            /\ MatchString(config[i].compiledRegex.prog,
                                           FullURL(resp'.request))
                       ELSE Contains(FullURL(resp'.request), config[i].URLPattern)]_vars
    /\ [](\A i \in DOMAIN config :
            (/\ config[i].Name = "user" /\ resp.nth > 0
             /\ <<resp.request.Method, resp.request.Path>> \in
                    {<<"GET", <<"/", "u", "/", "4", "2">>>>,
                     <<"POST", <<"/", "u", "/", "4", "2">>>>,
                     <<"GET", <<"/", "u", "/", "a", "b">>>>})
              => IF resp.request.Method = "GET"
                    /\ resp.request.Path = <<"/", "u", "/", "4", "2">>
                 THEN /\ resp.mode = "mock" /\ resp.override = i
                      /\ resp.Body = config[i].BodyText
                      /\ ~resp.upstream.sent
                      /\ requestCount[i] = resp.before.requestCount[i] + 1
                 ELSE /\ resp.mode = "buffered" /\ resp.upstream.sent
                      /\ requestCount[i] = resp.before.requestCount[i]
                      /\ triggerCount[i] = resp.before.triggerCount[i])

\* POST /u/42 was forwarded by a server whose rule for GET /u/\d+ has fired
C31_Witness ==
    /\ resp.request.Method = "POST"
    /\ resp.request.Path = <<"/", "u", "/", "4", "2">>
    /\ resp.mode = "buffered"
    /\ \E i \in DOMAIN config : config[i].Name = "user" /\ triggerCount[i] > 0

\* C32: the rewrite of a buffered forwarded response does not look at the
\* counters.  The rule whose replacements are applied is the first rule in
\* declaration order that is enabled, carries replacements and matches the
\* method and the URL, whether or not the stateful selection fired it on this
\* request, and whatever rule (or none) that selection returned; a non-empty
\* body is delivered with that rule's replacements applied.
C32_RewriteIgnoresCounters ==
    (resp.mode = "buffered" /\ resp.err = "")
        => LET carriers == {i \in DOMAIN config :
                               /\ Len(config[i].BodyReplacements) > 0
                               /\ RuleMatches(config[i], resp.request.Method,
                                              FullURL(resp.request))}
           IN  IF carriers = {}
               THEN resp.rewrite = 0 /\ resp.Body = resp.receivedBody
               ELSE /\ resp.rewrite \in carriers
                    /\ \A j \in carriers : resp.rewrite <= j
                    /\ Len(resp.receivedBody) > 0
                         => PlainBody(resp.Header, resp.Body) =
                               applyBodyReplacements(
                                   PlainBody(resp.received, resp.receivedBody),
                                   config[resp.rewrite].BodyReplacements)

\* the rule was matched and suppressed by trigger_after on this request, the
\* stateful selection returned a later rule, and the replacements of the
\* suppressed rule changed the body
C32_Witness ==
    /\ resp.mode = "buffered" /\ resp.err = ""
    /\ resp.override # 0 /\ resp.rewrite # 0 /\ resp.override # resp.rewrite
    /\ requestCount[resp.rewrite] = resp.before.requestCount[resp.rewrite] + 1
    /\ triggerCount[resp.rewrite] = 0
    /\ resp.Body # resp.receivedBody

----------------------------------------------------------------------------
(* Event streams.                                                          *)

\* C33: for an upstream response with Content-Type text/event-stream on the
\* streaming path, the handler first writes the origin's status, with
\* Cache-Control: no-cache and without Content-Length; then every piece read
\* from the upstream is written to the client and flushed before the next
\* read, so the pieces go out in the order the origin produced them.
C33_EventStreamRelayedInOrder ==
    \A p \in Procs :
        (/\ Len(stat[p]) > 0
         /\ stat[p][1].op = "WriteHeader"
         /\ IsEventStream(HeaderGet(args[p][1].Header, "Content-Type")))
           => /\ stat[p][1].head.StatusCode = args[p][1].StatusCode
              /\ "Content-Length" \notin DOMAIN stat[p][1].head.Header
              /\ HeaderGet(stat[p][1].head.Header, "Cache-Control") = "no-cache"
              /\ Len(stat[p]) = 1 + 3 * idx[p]
              /\ \A j \in 1..idx[p] :
                    /\ stat[p][3 * j - 1].op = "Read"
                    /\ stat[p][3 * j - 1].data = args[p][1].Body[j]
                    /\ stat[p][3 * j].op = "Write"
                    /\ stat[p][3 * j].data = args[p][1].Body[j]
                    /\ stat[p][3 * j + 1].op = "Flush"

\* an event stream of two pieces was relayed to its end to a connected client
C33_Witness ==
    \E p \in Procs :
        /\ pc[p] = "idle"
        /\ Len(stat[p]) = 7
        /\ stat[p][1].op = "WriteHeader"
        /\ IsEventStream(HeaderGet(args[p][1].Header, "Content-Type"))
        /\ stat[p][3].ok /\ stat[p][6].ok
        /\ stat[p][3].data # stat[p][6].data

----------------------------------------------------------------------------
(* Determinism and ranges of the rule counters.                            *)

C35_CountersInRange ==
    \A i \in DOMAIN config :
        /\ 0 <= triggerCount[i]
        /\ triggerCount[i] <= requestCount[i]
        /\ (config[i].ResetAfter > 0 /\ ~\E p \in Procs : pc[p] = "decide" /\ idx[p] = i)
               => requestCount[i] < config[i].ResetAfter

\* C35 witness: a rule with reset_after > 0 that had fired reached reset_after
\* inside a call, was reset by it, and is seen with both counters back at zero
\* after the call left the critical section.
C35_Witness ==
    \E i \in DOMAIN config, p \in Procs, q \in Procs :
        /\ config[i].ResetAfter > 0
        /\ trail[p][i].outcome = "reset"
        /\ trail[q][i].outcome = "fire"
        /\ mutex[i] = 0
        /\ requestCount[i] = 0
        /\ triggerCount[i] = 0

\* a rule whose reset comes no later than its first possible firing
ResetsBeforeFiring(o) == o.ResetAfter > 0 /\ o.ResetAfter <= o.TriggerAfter + 1

\* C36: a rule with reset_after > 0 and reset_after <= trigger_after + 1 never
\* fires: its trigger_count stays 0, no call decides "fire" on it, and no call
\* returns it.
C36_EarlyResetNeverFires ==
    \A i \in DOMAIN config :
        ResetsBeforeFiring(config[i]) =>
            /\ triggerCount[i] = 0
            /\ \A p \in Procs :
                   /\ trail[p][i].outcome # "fire"
                   /\ pc[p] = "done" => ret[p] # i

\* C36 witness: such a rule was matched past its trigger_after: one call was
\* suppressed on it below the threshold, and the call that would have been the
\* first to fire reset it instead and went on to the rules after it.
C36_Witness ==
    \E i \in DOMAIN config, p \in Procs, q \in Procs :
        /\ ResetsBeforeFiring(config[i])
        /\ trail[p][i].outcome = "suppressed"
        /\ trail[q][i].outcome = "reset"
        /\ pc[q] = "done"
        /\ requestCount[i] = 0

\* C37: a firing whose body_file cannot be read is counted like any other:
\* when the 500 goes out the rule's request_count and trigger_count are both
\* one above what the request found, and the firing has used up one of the
\* rule's max_triggers: once trigger_count has reached max_triggers with it, a
\* later matching request does not fire the rule, even if the file can be read
\* by then.
C37_FailedFiringIsCounted ==
    /\ []((resp.mode = "mock" /\ resp.err = "file")
             => /\ resp.StatusCode = 500
                /\ requestCount[resp.override] = resp.before.requestCount[resp.override] + 1
                /\ triggerCount[resp.override] = resp.before.triggerCount[resp.override] + 1)
    /\ [][(/\ resp.mode = "mock" /\ resp.err = "file"
           /\ config[resp.override].MaxTriggers > 0
           /\ resp.before.triggerCount[resp.override] + 1 = config[resp.override].MaxTriggers
           /\ served' = served + 1)
              => /\ resp'.override # resp.override
                 /\ triggerCount'[resp.override] = config[resp.override].MaxTriggers]_vars

\* C37 witness: the only firing a rule with max_triggers 1 is allowed has
\* failed on its file; the counters show it, and the server goes on serving.
C37_Witness ==
    /\ resp.mode = "mock" /\ resp.err = "file" /\ resp.StatusCode = 500
    /\ config[resp.override].MaxTriggers = 1
    /\ resp.before.triggerCount[resp.override] = 0
    /\ triggerCount[resp.override] = 1
    /\ requestCount[resp.override] = 1
    /\ served < MaxProxyModeRequests

----------------------------------------------------------------------------
(* The cache key, what is stored, and the snapshot that fails.             *)

\* C38: two requests that differ in method, upstream URL or the value of a
\* contributing header never have the same cache key: a response stored for
\* one request is never found under the key of, and served as a hit to, a
\* request that differs from it in one of these.
C38_HitIsForTheSameRequest ==
    [][(/\ served' = served + 1
        /\ resp.mode = "buffered" /\ resp.stored
        /\ resp'.mode = "hit"
        /\ resp'.key = resp.key)
           => SameCacheIdentity(resp.request, resp'.request)]_vars

\* C39: with caching enabled, every upstream response that was read to its
\* end on the buffered path for a URL the patterns admit is stored under the
\* request's key with the status it came with, whatever the status and the
\* method; and the next request of the same method, URL and contributing
\* headers that comes before the entry's expires_at is answered from it, with
\* that status and body and without going upstream, whatever its own body.
C39_EveryReadResponseIsStored ==
    /\ []((/\ resp.mode = "buffered" /\ resp.err = ""
           /\ shouldCacheURL(ProxyURL(resp.request, targetURL)))
             => /\ resp.stored
                /\ resp.key = generateCacheKey(resp.request.Method,
                                               Join(ProxyURL(resp.request, targetURL)),
                                               resp.request.Header)
                /\ resp.entry.StatusCode = resp.StatusCode
                /\ resp.entry.Body = resp.Body
                /\ resp.entry.ExpiresAt = resp.at + cacheSettings.TTL)
    /\ [][(/\ served' = served + 1
           /\ resp.mode = "buffered" /\ resp.stored
           /\ SameCacheIdentity(resp.request, resp'.request)
           /\ now < resp.entry.ExpiresAt)
              => /\ resp'.mode = "hit"
                 /\ ~resp'.upstream.sent
                 /\ resp'.StatusCode = resp.StatusCode
                 /\ resp'.Body = resp.Body]_vars

\* C39 witness: a POST is answered from the cache with the 500 the origin gave
\* to an earlier POST that had another body.
C39_Witness ==
    /\ resp.mode = "hit"
    /\ resp.request.Method = "POST"
    /\ resp.StatusCode = 500
    /\ resp.nth = 2
    /\ resp.request.Body # PostA.Body
    /\ resp.missesBefore = 1 /\ cacheMisses = 1 /\ cacheHits = 1

\* C40: when saveCacheToDisk returns an error, the step in which the worker
\* logs it and goes back to sleep sets the modified flag to 0 and leaves the
\* file as the failed write left it; a sleeping worker starts a save only with
\* the flag at 1, the flag goes from 0 to 1 only in a request that stores a
\* response, and while the worker sleeps with the flag at 0 the file does not
\* change: the failed snapshot is not retried, and the entries stay out of the
\* file until another store.
C40_FailedSnapshotIsNotRetried ==
    /\ [][(worker.pc = "clear" /\ worker.err /\ worker'.pc = "sleep" /\ worker'.err)
             => cacheModified' = 0 /\ cacheFile' = cacheFile]_vars
    /\ [][(worker.pc = "sleep" /\ worker'.pc # "sleep") => cacheModified = 1]_vars
    /\ [][(cacheModified = 0 /\ cacheModified' = 1)
             => served' = served + 1 /\ resp'.mode = "buffered" /\ resp'.stored]_vars
    /\ [][(worker.pc = "sleep" /\ cacheModified = 0) => cacheFile' = cacheFile]_vars

\* C40 witness: the worker sleeps after a save that failed, the flag is 0, an
\* unexpired entry is in memory, and the file holds no complete snapshot.
C40_Witness ==
    /\ worker.pc = "sleep" /\ worker.err
    /\ cacheModified = 0
    /\ \E k \in DOMAIN responseCache : now < responseCache[k].ExpiresAt
    /\ ~cacheFile.exists \/ ~CompleteSnapshot(cacheFile.data)
    /\ served < MaxRequests

====
